---- MODULE Spec2Model ----
(***************************************************************************)
(* decern-gate: the CI gate of src/src/main.ts and the path classifier of  *)
(* src/src/required-patterns.ts.                                           *)
(*                                                                         *)
(* Strings of the program are sequences of one-character strings, so that  *)
(* the regular expressions, includes/startsWith/endsWith and trim of the   *)
(* source are computed character by character.                             *)
(***************************************************************************)
EXTENDS Integers, Sequences, FiniteSets, TLC

VARIABLES
  env,            \* process.env as read when main.ts is loaded
  git,            \* what git answers: the diff (or its failure) and the last commit message
  pc,             \* run(): "start", "loop" (before a validateRef call), "await", "done", "threw"
  ids,            \* run(): the extracted references
  idx,            \* run(): position of the for-of loop in ids
  call,           \* validateRef in flight: phase, timer, status and reference
  deadlinePassed, \* DECERN_GATE_TIMEOUT_MS has elapsed since the pending request was issued
  requests,       \* every request handed to fetch, in order
  served,         \* per finished validateRef call: whether the remote delivered 200 and valid true, and then its hasLinkedPR
  result,         \* the ValidateResult of the last finished call
  log,            \* the lines written by log()
  exitCode,       \* the value run() resolved with, -1 before
  exIn,           \* a function called alone: its argument(s)
  exOut,          \* a function called alone: the value it returned
  exPc,           \* "off", or "call" before that call and "ret" after it
  earlier,        \* what an earlier run of the same job ended with, NoEarlier if there was none
  reLastIndex     \* the lastIndex of each of the global regular expressions of main.ts:41-45

runVars == <<env, git, pc, ids, idx, call, deadlinePassed, requests, served, result,
             log, exitCode>>
exVars == <<exIn, exOut, exPc, earlier, reLastIndex>>
vars == <<runVars, exVars>>

----------------------------------------------------------------------------
(* Characters *)

LowerLetters == <<"a","b","c","d","e","f","g","h","i","j","k","l","m",
                  "n","o","p","q","r","s","t","u","v","w","x","y","z">>
UpperLetters == <<"A","B","C","D","E","F","G","H","I","J","K","L","M",
                  "N","O","P","Q","R","S","T","U","V","W","X","Y","Z">>
Digits == {"0","1","2","3","4","5","6","7","8","9"}

Range(s) == {s[i] : i \in DOMAIN s}

IsLower(c) == c \in Range(LowerLetters)
IsUpper(c) == c \in Range(UpperLetters)
IsLetter(c) == IsLower(c) \/ IsUpper(c)

\* String.prototype.toLowerCase / toUpperCase on one ASCII character
ToLower(c) == IF IsUpper(c)
              THEN LowerLetters[CHOOSE i \in DOMAIN UpperLetters : UpperLetters[i] = c]
              ELSE c
ToUpper(c) == IF IsLower(c)
              THEN UpperLetters[CHOOSE i \in DOMAIN LowerLetters : LowerLetters[i] = c]
              ELSE c

\* the character class [a-zA-Z0-9_-] of the four extraction patterns
IsIdChar(c) == IsLetter(c) \/ c \in Digits \/ c = "_" \/ c = "-"
\* \w, which decides \b
IsWordChar(c) == IsLetter(c) \/ c \in Digits \/ c = "_"
\* \s, and the characters String.prototype.trim removes
IsSpace(c) == c \in {" ", "\n", "\t", "\r"}

\* s.slice(a - 1, b) in 1-based inclusive positions
Slice(s, a, b) == IF b < a THEN <<>> ELSE SubSeq(s, a, b)

\* String.prototype.trim
RECURSIVE TrimLeft(_)
TrimLeft(s) == IF s # <<>> /\ IsSpace(Head(s)) THEN TrimLeft(Tail(s)) ELSE s
RECURSIVE TrimRight(_)
TrimRight(s) == IF s # <<>> /\ IsSpace(s[Len(s)])
                THEN TrimRight(SubSeq(s, 1, Len(s) - 1)) ELSE s
Trim(s) == TrimRight(TrimLeft(s))

\* the literal lit matches s at position p; ci is the regex flag i
LitAt(s, p, lit, ci) ==
  /\ p >= 1
  /\ p + Len(lit) - 1 <= Len(s)
  /\ \A k \in DOMAIN lit :
        IF ci THEN ToLower(s[p + k - 1]) = ToLower(lit[k])
              ELSE s[p + k - 1] = lit[k]

\* last position of the longest run of [a-zA-Z0-9_-] starting at p (p - 1 when empty)
RECURSIVE IdRunEnd(_, _)
IdRunEnd(s, p) == IF p <= Len(s) /\ IsIdChar(s[p]) THEN IdRunEnd(s, p + 1) ELSE p - 1

\* first position at or after p that is not \s
RECURSIVE SkipSpace(_, _)
SkipSpace(s, p) == IF p <= Len(s) /\ IsSpace(s[p]) THEN SkipSpace(s, p + 1) ELSE p

\* \b between positions p - 1 and p
WordBoundary(s, p) ==
  LET before == p - 1 >= 1 /\ p - 1 <= Len(s) /\ IsWordChar(s[p - 1])
      after  == p >= 1 /\ p <= Len(s) /\ IsWordChar(s[p])
  IN  before # after

----------------------------------------------------------------------------
(* The four extraction patterns, main.ts:41-45.  A match is                 *)
(* [ok, cs, ce, next]: capture group 1 is s[cs..ce], lastIndex becomes      *)
(* next - 1 (positions here are 1-based).                                   *)

NoMatch == [ok |-> FALSE, cs |-> 0, ce |-> 0, next |-> 0]

LitDecernColon == <<"d","e","c","e","r","n",":">>
LitDecernDash  == <<"D","E","C","E","R","N","-">>
LitDecisions   == <<"/","d","e","c","i","s","i","o","n","s","/">>
LitAdrDash     == <<"A","D","R","-">>

\* /decern:\s*([a-zA-Z0-9_-]+)/gi attempted at position p
DECERN_PREFIX(s, p) ==
  IF ~LitAt(s, p, LitDecernColon, TRUE) THEN NoMatch
  ELSE LET cs == SkipSpace(s, p + Len(LitDecernColon))
           ce == IdRunEnd(s, cs)
       IN  IF ce >= cs THEN [ok |-> TRUE, cs |-> cs, ce |-> ce, next |-> ce + 1]
           ELSE NoMatch

\* /DECERN-([a-zA-Z0-9_-]+)/g attempted at position p
DECERN_TICKET(s, p) ==
  IF ~LitAt(s, p, LitDecernDash, FALSE) THEN NoMatch
  ELSE LET cs == p + Len(LitDecernDash)
           ce == IdRunEnd(s, cs)
       IN  IF ce >= cs THEN [ok |-> TRUE, cs |-> cs, ce |-> ce, next |-> ce + 1]
           ELSE NoMatch

\* /\/decisions\/([a-zA-Z0-9_-]+)/g attempted at position p
DECISIONS_URL(s, p) ==
  IF ~LitAt(s, p, LitDecisions, FALSE) THEN NoMatch
  ELSE LET cs == p + Len(LitDecisions)
           ce == IdRunEnd(s, cs)
       IN  IF ce >= cs THEN [ok |-> TRUE, cs |-> cs, ce |-> ce, next |-> ce + 1]
           ELSE NoMatch

\* /\b(ADR-[a-zA-Z0-9_-]+)\b/gi attempted at position p: the greedy run
\* backtracks to the longest prefix that ends on a word boundary
ADR_REF(s, p) ==
  IF ~(WordBoundary(s, p) /\ LitAt(s, p, LitAdrDash, TRUE)) THEN NoMatch
  ELSE LET from == p + Len(LitAdrDash)
           to   == IdRunEnd(s, from)
           ends == {e \in from..to : WordBoundary(s, e + 1)}
       IN  IF ends = {} THEN NoMatch
           ELSE LET ce == CHOOSE e \in ends : \A f \in ends : f <= e
                IN  [ok |-> TRUE, cs |-> p, ce |-> ce, next |-> ce + 1]

\* the array literal of main.ts:53
PatternForms == <<"DECERN_PREFIX", "DECERN_TICKET", "DECISIONS_URL", "ADR_REF">>

MatchAt(re, s, p) ==
  CASE re = "DECERN_PREFIX" -> DECERN_PREFIX(s, p)
    [] re = "DECERN_TICKET" -> DECERN_TICKET(s, p)
    [] re = "DECISIONS_URL" -> DECISIONS_URL(s, p)
    [] re = "ADR_REF"       -> ADR_REF(s, p)

\* re.exec(text) with re.lastIndex = from - 1: the leftmost match at or after from
RECURSIVE RegExpExec(_, _, _)
RegExpExec(re, s, from) ==
  IF from > Len(s) THEN NoMatch
  ELSE LET m == MatchAt(re, s, from)
       IN  IF m.ok THEN m ELSE RegExpExec(re, s, from + 1)

----------------------------------------------------------------------------
(* extractDecisionIds, main.ts:50-61 *)

\* JS values that reach a string parameter
JsString(s) == [t |-> "string", v |-> s]
JsUndefined == [t |-> "undefined", v |-> <<>>]
JsNull      == [t |-> "null", v |-> <<>>]

\* mutant of SetAdd: a list that keeps repeated values
SetAdd_NoDedup(set, v) == Append(set, v)

\* Set.prototype.add on an insertion-ordered Set kept as a sequence
SetAdd(set, v) == IF v \in Range(set) THEN set ELSE Append(set, v)

\* the loop of main.ts:56-58 for one pattern, entered with re.lastIndex = lastIndex
RECURSIVE ExecLoop(_, _, _, _)
ExecLoop(re, s, lastIndex, set) ==
  LET m == RegExpExec(re, s, lastIndex + 1)
  IN  IF ~m.ok THEN set
      ELSE ExecLoop(re, s, m.next - 1, SetAdd(set, Trim(Slice(s, m.cs, m.ce))))

\* the loop of main.ts:53-59 over the patterns k..4; line 54 resets lastIndex
RECURSIVE ExtractFrom(_, _, _)
ExtractFrom(k, s, set) ==
  IF k > Len(PatternForms) THEN set
  ELSE ExtractFrom(k + 1, s, ExecLoop(PatternForms[k], s, 0, set))

extractDecisionIds(text) ==
  IF text.t # "string" \/ text.v = <<>> THEN <<>>
  ELSE ExtractFrom(1, text.v, <<>>)


\* every regular expression at the start of the text, as when the module is loaded
ZeroIndex == [re \in Range(PatternForms) |-> 0]

RECURSIVE ExtractWith_ExecOnce(_, _, _, _)
\* mutant of ExtractWith: lastIndex is not reset and exec is called once per pattern
ExtractWith_ExecOnce(k, s, li, set) ==
  IF k > Len(PatternForms) THEN [ids |-> set, lastIndex |-> li]
  ELSE LET re == PatternForms[k]
           m == RegExpExec(re, s, li[re] + 1)
       IN  IF m.ok
           THEN ExtractWith_ExecOnce(k + 1, s, [li EXCEPT ![re] = m.next - 1],
                                     SetAdd(set, Trim(Slice(s, m.cs, m.ce))))
           ELSE ExtractWith_ExecOnce(k + 1, s, [li EXCEPT ![re] = 0], set)

RECURSIVE ExtractWith(_, _, _, _)
\* the loop of main.ts:53-59 over the patterns k..4 with the regular expressions
\* in state li: line 54 sets lastIndex to 0, the loop of lines 56-58 starts
\* there, and the exec that returns null, which ends it, leaves lastIndex at 0
ExtractWith(k, s, li, set) ==
  IF k > Len(PatternForms) THEN [ids |-> set, lastIndex |-> li]
  ELSE LET re == PatternForms[k]
           reset == [li EXCEPT ![re] = 0]
       IN  ExtractWith(k + 1, s, [reset EXCEPT ![re] = 0], ExecLoop(re, s, reset[re], set))

----------------------------------------------------------------------------
(* String helpers of required-patterns.ts *)

\* String.prototype.includes
Includes(s, p) == \E i \in 1..(Len(s) - Len(p) + 1) : LitAt(s, i, p, FALSE)
\* String.prototype.startsWith / endsWith
StartsWith(s, p) == LitAt(s, 1, p, FALSE)
EndsWith(s, p) == Len(p) <= Len(s) /\ LitAt(s, Len(s) - Len(p) + 1, p, FALSE)

\* mutant of NormalizePath: the path is used as it came
NormalizePath_AsGiven(path) == path

\* path.replace(/\\/g, "/")
NormalizePath(path) == [i \in DOMAIN path |-> IF path[i] = "\\" THEN "/" ELSE path[i]]

\* normalized.split("/").pop(): what follows the last "/"
Basename(normalized) ==
  LET slashes == {i \in DOMAIN normalized : normalized[i] = "/"}
  IN  IF slashes = {} THEN normalized
      ELSE LET last == CHOOSE i \in slashes : \A j \in slashes : j <= i
           IN  Slice(normalized, last + 1, Len(normalized))

\* s.split(sep) for a one-character separator
RECURSIVE SplitOn(_, _)
SplitOn(s, sep) ==
  LET at == {i \in DOMAIN s : s[i] = sep}
  IN  IF at = {} THEN <<s>>
      ELSE LET first == CHOOSE i \in at : \A j \in at : i <= j
           IN  <<Slice(s, 1, first - 1)>> \o SplitOn(Slice(s, first + 1, Len(s)), sep)

JsArray(a) == [t |-> "array", v |-> a]
JsNumber(n) == [t |-> "number", v |-> n]

----------------------------------------------------------------------------
(* The catalogue of required-patterns.ts *)

\* required-patterns.ts:263-271, the arrays it spreads written out
REQUIRED_PATH_PATTERNS ==
  \* DB_PATH_PATTERNS, required-patterns.ts:11-24
  << <<"s","u","p","a","b","a","s","e","/","m","i","g","r","a","t","i","o","n","s","/">>,
     <<"p","r","i","s","m","a","/","m","i","g","r","a","t","i","o","n","s","/">>,
     <<"t","y","p","e","o","r","m","/","m","i","g","r","a","t","i","o","n","s","/">>,
     <<"l","i","q","u","i","b","a","s","e","/">>,
     <<"f","l","y","w","a","y","/">>,
     <<"d","b","/","m","i","g","r","a","t","i","o","n","s","/">>,
     <<"d","a","t","a","b","a","s","e","/","m","i","g","r","a","t","i","o","n","s","/">>,
     <<"d","r","i","z","z","l","e","/">>,
     <<"a","l","e","m","b","i","c","/">>,
     <<"m","i","k","r","o","-","o","r","m","/">>,
     <<"s","e","q","u","e","l","i","z","e","/","m","i","g","r","a","t","i","o","n","s","/">>,
     <<"d","j","a","n","g","o","/","m","i","g","r","a","t","i","o","n","s","/">> >>
  \o
  \* INFRA_PATH_PATTERNS, required-patterns.ts:36-51
  << <<"t","e","r","r","a","f","o","r","m","/">>,
     <<"p","u","l","u","m","i","/">>,
     <<"c","d","k","/">>,
     <<"h","e","l","m","/">>,
     <<"c","h","a","r","t","s","/">>,
     <<"k","8","s","/">>,
     <<"k","u","b","e","r","n","e","t","e","s","/">>,
     <<"m","a","n","i","f","e","s","t","s","/">>,
     <<"a","n","s","i","b","l","e","/">>,
     <<"p","a","c","k","e","r","/">>,
     <<"b","i","c","e","p","/">>,
     <<"c","r","o","s","s","p","l","a","n","e","/">>,
     <<"n","o","m","a","d","/">>,
     <<"s","e","r","v","e","r","l","e","s","s","/">> >>
  \o
  \* CI_PATH_PATTERNS, required-patterns.ts:73-80
  << <<".","g","i","t","h","u","b","/","w","o","r","k","f","l","o","w","s","/">>,
     <<".","g","i","t","h","u","b","/","a","c","t","i","o","n","s","/">>,
     <<".","c","i","r","c","l","e","c","i","/">>,
     <<".","b","u","i","l","d","k","i","t","e","/">>,
     <<".","t","r","a","v","i","s","/">>,
     <<".","d","r","o","n","e","/">> >>
  \o
  \* SECURITY_PATH_PATTERNS, required-patterns.ts:161-175
  << <<"a","u","t","h","/">>,
     <<"a","u","t","h","e","n","t","i","c","a","t","i","o","n","/">>,
     <<"a","u","t","h","o","r","i","z","a","t","i","o","n","/">>,
     <<"i","a","m","/">>,
     <<"r","b","a","c","/">>,
     <<"a","c","l","/">>,
     <<"o","a","u","t","h","/">>,
     <<"o","i","d","c","/">>,
     <<"s","a","m","l","/">>,
     <<"s","e","c","u","r","i","t","y","/">>,
     <<"c","r","y","p","t","o","/">>,
     <<"o","p","a","/">>,
     <<"r","e","g","o","/">> >>
  \o
  \* API_PATH_PATTERNS, required-patterns.ts:187-187
  << <<"p","r","o","t","o","/">> >>
  \o
  \* OBSERVABILITY_PATH_PATTERNS, required-patterns.ts:231-239
  << <<"p","r","o","m","e","t","h","e","u","s","/">>,
     <<"g","r","a","f","a","n","a","/">>,
     <<"a","l","e","r","t","m","a","n","a","g","e","r","/">>,
     <<"o","t","e","l","/">>,
     <<"o","p","e","n","t","e","l","e","m","e","t","r","y","/">>,
     <<"d","a","t","a","d","o","g","/">>,
     <<"s","e","n","t","r","y","/">> >>
  \o
  \* GRADLE_PATH_PATTERNS, required-patterns.ts:257-257
  << <<"g","r","a","d","l","e","/","w","r","a","p","p","e","r","/">> >>

\* required-patterns.ts:273-282, the arrays it spreads written out
REQUIRED_BASENAMES ==
  \* DB_BASENAMES, required-patterns.ts:26-31
  << <<"s","c","h","e","m","a",".","p","r","i","s","m","a">>,
     <<"l","i","q","u","i","b","a","s","e",".","p","r","o","p","e","r","t","i","e","s">>,
     <<"f","l","y","w","a","y",".","c","o","n","f">>,
     <<"a","l","e","m","b","i","c",".","i","n","i">> >>
  \o
  \* INFRA_BASENAMES, required-patterns.ts:53-68
  << <<"d","o","c","k","e","r","-","c","o","m","p","o","s","e",".","y","m","l">>,
     <<"d","o","c","k","e","r","-","c","o","m","p","o","s","e",".","y","a","m","l">>,
     <<"k","u","s","t","o","m","i","z","a","t","i","o","n",".","y","a","m","l">>,
     <<"s","k","a","f","f","o","l","d",".","y","a","m","l">>,
     <<"T","i","l","t","f","i","l","e">>,
     <<"t","i","l","t","f","i","l","e">>,
     <<"v","a","l","u","e","s",".","y","a","m","l">>,
     <<".","d","o","c","k","e","r","i","g","n","o","r","e">>,
     <<"c","o","m","p","o","s","e",".","y","a","m","l">>,
     <<"c","o","m","p","o","s","e",".","y","m","l">>,
     <<"s","e","r","v","e","r","l","e","s","s",".","y","m","l">>,
     <<"s","e","r","v","e","r","l","e","s","s",".","y","a","m","l">>,
     <<"V","a","g","r","a","n","t","f","i","l","e">>,
     <<"v","a","g","r","a","n","t","f","i","l","e">> >>
  \o
  \* CI_BASENAMES, required-patterns.ts:82-92
  << <<".","g","i","t","l","a","b","-","c","i",".","y","m","l">>,
     <<"a","z","u","r","e","-","p","i","p","e","l","i","n","e","s",".","y","m","l">>,
     <<"b","i","t","b","u","c","k","e","t","-","p","i","p","e","l","i","n","e","s",".","y","m","l">>,
     <<".","t","r","a","v","i","s",".","y","m","l">>,
     <<"a","p","p","v","e","y","o","r",".","y","m","l">>,
     <<"d","r","o","n","e",".","y","m","l">>,
     <<"w","o","o","d","p","e","c","k","e","r",".","y","m","l">>,
     <<".","p","r","e","-","c","o","m","m","i","t","-","c","o","n","f","i","g",".","y","a","m","l">>,
     <<".","p","r","e","-","c","o","m","m","i","t","-","c","o","n","f","i","g",".","y","m","l">> >>
  \o
  \* DEPS_BASENAMES, required-patterns.ts:97-156
  << <<"p","a","c","k","a","g","e",".","j","s","o","n">>,
     <<"p","a","c","k","a","g","e","-","l","o","c","k",".","j","s","o","n">>,
     <<"y","a","r","n",".","l","o","c","k">>,
     <<"p","n","p","m","-","l","o","c","k",".","y","a","m","l">>,
     <<"b","u","n",".","l","o","c","k">>,
     <<"b","u","n",".","l","o","c","k","b">>,
     <<".","n","p","m","r","c">>,
     <<".","y","a","r","n","r","c">>,
     <<".","y","a","r","n","r","c",".","y","m","l">>,
     <<"r","e","q","u","i","r","e","m","e","n","t","s",".","t","x","t">>,
     <<"p","y","p","r","o","j","e","c","t",".","t","o","m","l">>,
     <<"p","o","e","t","r","y",".","l","o","c","k">>,
     <<"P","i","p","f","i","l","e">>,
     <<"P","i","p","f","i","l","e",".","l","o","c","k">>,
     <<"u","v",".","l","o","c","k">>,
     <<".","t","o","o","l","-","v","e","r","s","i","o","n","s">>,
     <<"m","i","s","e",".","t","o","m","l">>,
     <<"p","o","m",".","x","m","l">>,
     <<"b","u","i","l","d",".","g","r","a","d","l","e">>,
     <<"b","u","i","l","d",".","g","r","a","d","l","e",".","k","t","s">>,
     <<"s","e","t","t","i","n","g","s",".","g","r","a","d","l","e">>,
     <<"g","r","a","d","l","e",".","p","r","o","p","e","r","t","i","e","s">>,
     <<"g","o",".","m","o","d">>,
     <<"g","o",".","s","u","m">>,
     <<"C","a","r","g","o",".","t","o","m","l">>,
     <<"C","a","r","g","o",".","l","o","c","k">>,
     <<"G","e","m","f","i","l","e">>,
     <<"G","e","m","f","i","l","e",".","l","o","c","k">>,
     <<"c","o","m","p","o","s","e","r",".","j","s","o","n">>,
     <<"c","o","m","p","o","s","e","r",".","l","o","c","k">>,
     <<"p","a","c","k","a","g","e","s",".","c","o","n","f","i","g">>,
     <<"n","u","g","e","t",".","c","o","n","f","i","g">>,
     <<"C","M","a","k","e","L","i","s","t","s",".","t","x","t">>,
     <<"M","a","k","e","f","i","l","e">>,
     <<"v","c","p","k","g",".","j","s","o","n">>,
     <<"r","e","n","o","v","a","t","e",".","j","s","o","n">>,
     <<"r","e","n","o","v","a","t","e",".","j","s","o","n","5">>,
     <<"t","u","r","b","o",".","j","s","o","n">>,
     <<"n","x",".","j","s","o","n">>,
     <<"p","n","p","m","-","w","o","r","k","s","p","a","c","e",".","y","a","m","l">>,
     <<"s","e","t","t","i","n","g","s",".","g","r","a","d","l","e",".","k","t","s">>,
     <<"p","u","b","s","p","e","c",".","y","a","m","l">>,
     <<"p","u","b","s","p","e","c",".","l","o","c","k">>,
     <<"P","o","d","f","i","l","e">>,
     <<"P","o","d","f","i","l","e",".","l","o","c","k">>,
     <<"m","i","x",".","e","x","s">>,
     <<"m","i","x",".","l","o","c","k">>,
     <<"d","e","p","s",".","e","d","n">>,
     <<"p","r","o","j","e","c","t",".","c","l","j">>,
     <<"b","u","i","l","d",".","b","o","o","t">>,
     <<"s","h","a","r","d",".","y","m","l">>,
     <<"c","a","b","a","l",".","p","r","o","j","e","c","t">>,
     <<"c","a","b","a","l",".","p","r","o","j","e","c","t",".","f","r","e","e","z","e">>,
     <<"s","t","a","c","k",".","y","a","m","l">>,
     <<"W","O","R","K","S","P","A","C","E">>,
     <<"W","O","R","K","S","P","A","C","E",".","b","a","z","e","l">>,
     <<"B","U","I","L","D",".","b","a","z","e","l">>,
     <<"M","O","D","U","L","E",".","b","a","z","e","l">> >>
  \o
  \* API_BASENAMES, required-patterns.ts:189-201
  << <<"o","p","e","n","a","p","i",".","y","a","m","l">>,
     <<"o","p","e","n","a","p","i",".","y","m","l">>,
     <<"o","p","e","n","a","p","i",".","j","s","o","n">>,
     <<"s","w","a","g","g","e","r",".","y","a","m","l">>,
     <<"s","w","a","g","g","e","r",".","y","m","l">>,
     <<"s","w","a","g","g","e","r",".","j","s","o","n">>,
     <<"a","s","y","n","c","a","p","i",".","y","a","m","l">>,
     <<"a","s","y","n","c","a","p","i",".","y","m","l">>,
     <<"a","s","y","n","c","a","p","i",".","j","s","o","n">>,
     <<"s","c","h","e","m","a",".","g","r","a","p","h","q","l">>,
     <<"s","c","h","e","m","a",".","g","q","l">> >>
  \o
  \* CONFIG_BASENAMES, required-patterns.ts:206-226
  << <<"P","r","o","c","f","i","l","e">>,
     <<"n","g","i","n","x",".","c","o","n","f">>,
     <<"h","a","p","r","o","x","y",".","c","f","g">>,
     <<"a","p","p","l","i","c","a","t","i","o","n",".","y","m","l">>,
     <<"a","p","p","l","i","c","a","t","i","o","n",".","y","a","m","l">>,
     <<"a","p","p","l","i","c","a","t","i","o","n",".","p","r","o","p","e","r","t","i","e","s">>,
     <<"v","e","r","c","e","l",".","j","s","o","n">>,
     <<"n","e","t","l","i","f","y",".","t","o","m","l">>,
     <<"n","e","t","l","i","f","y",".","y","a","m","l">>,
     <<"f","i","r","e","b","a","s","e",".","j","s","o","n">>,
     <<"w","r","a","n","g","l","e","r",".","t","o","m","l">>,
     <<"r","a","i","l","w","a","y",".","j","s","o","n">>,
     <<"r","a","i","l","w","a","y",".","t","o","m","l">>,
     <<"r","e","n","d","e","r",".","y","a","m","l">>,
     <<"e","c","o","s","y","s","t","e","m",".","c","o","n","f","i","g",".","j","s">>,
     <<"e","c","o","s","y","s","t","e","m",".","c","o","n","f","i","g",".","c","j","s">>,
     <<"e","c","o","s","y","s","t","e","m",".","c","o","n","f","i","g",".","m","j","s">>,
     <<"e","c","o","s","y","s","t","e","m",".","c","o","n","f","i","g",".","t","s">>,
     <<"f","l","y",".","t","o","m","l">> >>
  \o
  \* SECURITY_BASENAMES, required-patterns.ts:177-182
  << <<"C","O","D","E","O","W","N","E","R","S">>,
     <<".","s","n","y","k">>,
     <<".","g","i","t","l","e","a","k","s",".","t","o","m","l">>,
     <<".","g","i","t","l","e","a","k","s",".","y","a","m","l">> >>
  \o
  \* OBSERVABILITY_BASENAMES, required-patterns.ts:241-252
  << <<"s","e","n","t","r","y",".","c","l","i","e","n","t",".","c","o","n","f","i","g",".","j","s">>,
     <<"s","e","n","t","r","y",".","s","e","r","v","e","r",".","c","o","n","f","i","g",".","j","s">>,
     <<"s","e","n","t","r","y",".","e","d","g","e",".","c","o","n","f","i","g",".","j","s">>,
     <<"s","e","n","t","r","y",".","p","r","o","p","e","r","t","i","e","s">>,
     <<"n","e","w","r","e","l","i","c",".","j","s">>,
     <<"n","e","w","r","e","l","i","c",".","c","j","s">>,
     <<"n","e","w","r","e","l","i","c",".","y","m","l">>,
     <<"n","e","w","r","e","l","i","c",".","y","a","m","l">>,
     <<"d","a","t","a","d","o","g",".","y","a","m","l">>,
     <<"d","a","t","a","d","o","g",".","y","m","l">> >>

----------------------------------------------------------------------------
(* pathMatchesRequired, required-patterns.ts:284-370 *)

\* the guard `extraPatterns && extraPatterns.length > 0` and the loop under it;
\* the second argument is whatever the caller passes: an array, undefined, or
\* (called as an Array.prototype.filter callback) the element's index
ExtraPatternsHit(normalized, basename, extraPatterns) ==
  /\ extraPatterns.t = "array"
  /\ Len(extraPatterns.v) > 0
  /\ \E k \in DOMAIN extraPatterns.v :
        LET p == extraPatterns.v[k]
        IN  IF "/" \in Range(p) THEN Includes(normalized, p) ELSE basename = p

\* required-patterns.ts:301-308
DependabotHit(normalized) ==
  \/ normalized = <<".","g","i","t","h","u","b","/","d","e","p","e","n","d","a","b","o","t",".","y","m","l">>
  \/ EndsWith(normalized, <<"/",".","g","i","t","h","u","b","/","d","e","p","e","n","d","a","b","o","t",".","y","m","l">>)
  \/ normalized = <<".","g","i","t","h","u","b","/","d","e","p","e","n","d","a","b","o","t",".","y","a","m","l">>
  \/ EndsWith(normalized, <<"/",".","g","i","t","h","u","b","/","d","e","p","e","n","d","a","b","o","t",".","y","a","m","l">>)

\* required-patterns.ts:310-318
TerraformHit(basename) ==
  \/ EndsWith(basename, <<".","t","f">>)
  \/ EndsWith(basename, <<".","t","f","v","a","r","s">>)
  \/ EndsWith(basename, <<".","t","f",".","j","s","o","n">>)
  \/ basename = <<".","t","e","r","r","a","f","o","r","m",".","l","o","c","k",".","h","c","l">>
  \/ basename = <<".","t","f","l","i","n","t",".","h","c","l">>

JsExt(basename) ==
  \/ EndsWith(basename, <<".","j","s">>)
  \/ EndsWith(basename, <<".","m","j","s">>)
  \/ EndsWith(basename, <<".","t","s">>)
  \/ EndsWith(basename, <<".","c","j","s">>)

\* the prefix/suffix rules on the basename, required-patterns.ts:320-367
StructuralHit(basename) ==
  \/ basename = <<"D","o","c","k","e","r","f","i","l","e">> \/ StartsWith(basename, <<"D","o","c","k","e","r","f","i","l","e",".">>)
  \/ basename = <<"J","e","n","k","i","n","s","f","i","l","e">> \/ StartsWith(basename, <<"J","e","n","k","i","n","s","f","i","l","e",".">>)
  \/ basename = <<"d","o","c","k","e","r","-","c","o","m","p","o","s","e",".","y","m","l">>
  \/ basename = <<"d","o","c","k","e","r","-","c","o","m","p","o","s","e",".","y","a","m","l">>
  \/ (StartsWith(basename, <<"d","o","c","k","e","r","-","c","o","m","p","o","s","e",".">>)
        /\ (EndsWith(basename, <<".","y","m","l">>) \/ EndsWith(basename, <<".","y","a","m","l">>)))
  \/ (StartsWith(basename, <<"v","a","l","u","e","s","-">>)
        /\ (EndsWith(basename, <<".","y","a","m","l">>) \/ EndsWith(basename, <<".","y","m","l">>)))
  \/ (StartsWith(basename, <<"r","e","q","u","i","r","e","m","e","n","t","s","-">>) /\ EndsWith(basename, <<".","t","x","t">>))
  \/ basename = <<".","e","n","v">> \/ StartsWith(basename, <<".","e","n","v",".">>)
  \/ EndsWith(basename, <<".","c","s","p","r","o","j">>) \/ EndsWith(basename, <<".","f","s","p","r","o","j">>)
  \/ EndsWith(basename, <<".","s","l","n">>)
  \/ StartsWith(basename, <<"c","o","n","a","n","f","i","l","e",".">>)
  \/ basename = <<"C","o","n","t","a","i","n","e","r","f","i","l","e">> \/ StartsWith(basename, <<"C","o","n","t","a","i","n","e","r","f","i","l","e",".">>)
  \/ (StartsWith(basename, <<"a","p","p","s","e","t","t","i","n","g","s">>) /\ EndsWith(basename, <<".","j","s","o","n">>))
  \/ basename = <<"t","s","c","o","n","f","i","g",".","j","s","o","n">>
  \/ (StartsWith(basename, <<"t","s","c","o","n","f","i","g",".">>) /\ EndsWith(basename, <<".","j","s","o","n">>))
  \/ (StartsWith(basename, <<"n","e","x","t",".","c","o","n","f","i","g",".">>) /\ JsExt(basename))
  \/ (StartsWith(basename, <<"v","i","t","e",".","c","o","n","f","i","g",".">>) /\ JsExt(basename))
  \/ (StartsWith(basename, <<"w","e","b","p","a","c","k",".","c","o","n","f","i","g",".">>) /\ JsExt(basename))
  \/ (StartsWith(basename, <<"b","a","b","e","l",".","c","o","n","f","i","g",".">>)
        /\ (EndsWith(basename, <<".","j","s">>) \/ EndsWith(basename, <<".","c","j","s">>)
            \/ EndsWith(basename, <<".","m","j","s">>) \/ EndsWith(basename, <<".","j","s","o","n">>)))
  \/ (StartsWith(basename, <<"f","i","r","e","b","a","s","e",".">>) /\ EndsWith(basename, <<".","j","s","o","n">>))
  \/ EndsWith(basename, <<".","t","e","m","p","l","a","t","e",".","y","a","m","l">>)
  \/ EndsWith(basename, <<".","t","e","m","p","l","a","t","e",".","y","m","l">>)
  \/ EndsWith(basename, <<".","t","e","m","p","l","a","t","e",".","j","s","o","n">>)
  \/ (StartsWith(basename, <<"s","e","n","t","r","y",".">>)
        /\ (EndsWith(basename, <<".","c","o","n","f","i","g",".","j","s">>) \/ EndsWith(basename, <<".","c","o","n","f","i","g",".","t","s">>)))
  \/ basename = <<"B","U","I","L","D">> \/ basename = <<"B","U","I","L","D",".","b","a","z","e","l">>


\* mutant of pathMatchesRequired: the final catalogue-basename test is dropped
pathMatchesRequired_NoBasenames(path, extraPatterns) ==
  LET normalized == NormalizePath(path)
      basename == Basename(normalized)
  IN  \/ ExtraPatternsHit(normalized, basename, extraPatterns)
      \/ \E k \in DOMAIN REQUIRED_PATH_PATTERNS :
            Includes(normalized, REQUIRED_PATH_PATTERNS[k])
      \/ DependabotHit(normalized)
      \/ TerraformHit(basename)
      \/ StructuralHit(basename)

pathMatchesRequired(path, extraPatterns) ==
  LET normalized == NormalizePath(path)
      basename == Basename(normalized)
  IN  \/ ExtraPatternsHit(normalized, basename, extraPatterns)
      \/ \E k \in DOMAIN REQUIRED_PATH_PATTERNS :
            Includes(normalized, REQUIRED_PATH_PATTERNS[k])
      \/ DependabotHit(normalized)
      \/ TerraformHit(basename)
      \/ StructuralHit(basename)
      \/ basename \in Range(REQUIRED_BASENAMES)

----------------------------------------------------------------------------
(* JS values and the configuration read from process.env, main.ts:11-29 *)

JsTrue == [t |-> "true", v |-> <<>>]
JsFalse == [t |-> "false", v |-> <<>>]

IsNullish(x) == x.t \in {"undefined", "null"}
\* ToBoolean of the values that occur here
Truthy(x) ==
  CASE x.t = "string" -> x.v # <<>>
    [] x.t = "number" -> x.v # 0
    [] x.t \in {"true", "array"} -> TRUE
    [] OTHER -> FALSE

\* process.env.X?.trim()
OptTrim(x) == IF x.t = "string" THEN JsString(Trim(x.v)) ELSE x
\* String.prototype.toLowerCase
LowerCase(s) == [i \in DOMAIN s |-> ToLower(s[i])]

DigitChars == <<"0","1","2","3","4","5","6","7","8","9">>
DigitValue(c) == (CHOOSE i \in DOMAIN DigitChars : DigitChars[i] = c) - 1

\* String(n) for an integer n >= 0
RECURSIVE NumToString(_)
NumToString(n) ==
  IF n < 10 THEN <<DigitChars[n + 1]>>
  ELSE NumToString(n \div 10) \o <<DigitChars[(n % 10) + 1]>>

\* value of the longest prefix of decimal digits of s, continuing from acc
RECURSIVE DigitsValue(_, _)
DigitsValue(s, acc) ==
  IF s # <<>> /\ Head(s) \in Digits
  THEN DigitsValue(Tail(s), 10 * acc + DigitValue(Head(s)))
  ELSE acc

\* parseInt(s, 10): [nan, n]
ParseInt(s) ==
  LET u == TrimLeft(s)
      neg == u # <<>> /\ Head(u) = "-"
      body == IF u # <<>> /\ Head(u) \in {"-", "+"} THEN Tail(u) ELSE u
  IN  IF body = <<>> \/ Head(body) \notin Digits THEN [nan |-> TRUE, n |-> 0]
      ELSE [nan |-> FALSE,
            n |-> IF neg THEN 0 - DigitsValue(body, 0) ELSE DigitsValue(body, 0)]

Max(a, b) == IF a >= b THEN a ELSE b

\* main.ts:11-12
DECERN_BASE_URL == OptTrim(env.DECERN_BASE_URL)
DECERN_CI_TOKEN == OptTrim(env.DECERN_CI_TOKEN)

\* main.ts:13-16
DECERN_GATE_TIMEOUT_MS ==
  LET raw == IF IsNullish(env.DECERN_GATE_TIMEOUT_MS) THEN <<"5","0","0","0">>
             ELSE env.DECERN_GATE_TIMEOUT_MS.v
      parsed == ParseInt(raw)
  IN  Max(1000, IF parsed.nan \/ parsed.n = 0 THEN 5000 ELSE parsed.n)

\* main.ts:18-22
CI_BASE_SHA == OptTrim(env.CI_BASE_SHA)
CI_HEAD_SHA == OptTrim(env.CI_HEAD_SHA)
CI_PR_TITLE == OptTrim(env.CI_PR_TITLE)
CI_PR_BODY == OptTrim(env.CI_PR_BODY)
CI_COMMIT_MESSAGE == OptTrim(env.CI_COMMIT_MESSAGE)

\* main.ts:24
VALIDATE_PATH ==
  IF Truthy(OptTrim(env.DECERN_VALIDATE_PATH)) THEN OptTrim(env.DECERN_VALIDATE_PATH).v
  ELSE <<"/","a","p","i","/","d","e","c","i","s","i","o","n","-","g","a","t","e","/","v","a","l","i","d","a","t","e">>

\* main.ts:27-29
DECERN_GATE_REQUIRE_LINKED_PR ==
  LET x == env.DECERN_GATE_REQUIRE_LINKED_PR
  IN  x.t = "string" /\ (LowerCase(x.v) = <<"t","r","u","e">> \/ x.v = <<"1">>)

----------------------------------------------------------------------------
(* log lines: the template of the source line and the values put in it *)

Line(msg, args) == [msg |-> msg, args |-> args]
BlankLine == Line("", <<>>)

\* `Dashboard: ${DECERN_BASE_URL}` under `if (DECERN_BASE_URL)`
DashboardLines ==
  IF Truthy(DECERN_BASE_URL) THEN <<Line("Dashboard: %s", <<DECERN_BASE_URL.v>>)>>
  ELSE <<>>

\* formatLabel, main.ts:188-193
Capitalize(w) ==
  IF w = <<>> THEN <<>>
  ELSE <<ToUpper(w[1])>> \o LowerCase(Slice(w, 2, Len(w)))

RECURSIVE JoinWith(_, _)
JoinWith(parts, sep) ==
  IF parts = <<>> THEN <<>>
  ELSE IF Len(parts) = 1 THEN parts[1]
  ELSE parts[1] \o sep \o JoinWith(Tail(parts), sep)

formatLabel(s) ==
  LET words == SplitOn(s, "_")
  IN  JoinWith([i \in DOMAIN words |-> Capitalize(words[i])], <<" ">>)

MAX_FILES_LIST == 10

\* formatFileList, main.ts:202-206: the paths shown and how many more there are
formatFileList(files, max) ==
  IF Len(files) <= max THEN [shown |-> files, more |-> 0]
  ELSE [shown |-> SubSeq(files, 1, max), more |-> Len(files) - max]

----------------------------------------------------------------------------
(* Policy, main.ts:31-37 *)

\* Array.prototype.filter(callback): the callback receives (element, index, array)
RECURSIVE FilterWithIndex(_, _)
FilterWithIndex(files, i) ==
  IF i > Len(files) THEN <<>>
  ELSE (IF pathMatchesRequired(files[i], JsNumber(i - 1)) THEN <<files[i]>> ELSE <<>>)
       \o FilterWithIndex(files, i + 1)

\* changedFiles.filter(pathMatchesRequired)
FilterRequired(files) == FilterWithIndex(files, 1)


\* mutant of isDecisionRequired: a decision is required whatever the paths are
isDecisionRequired_Always(changedFiles) ==
  LET matched == FilterRequired(changedFiles)
  IN  [required |-> TRUE,
       reason |-> Line("High-impact patterns matched: %s%s",
                       <<SubSeq(matched, 1, IF Len(matched) < 5 THEN Len(matched) ELSE 5),
                         IF Len(matched) > 5 THEN "..." ELSE "">>)]

\* mutant of isDecisionRequired: the ellipsis is added from five matches on
isDecisionRequired_EllipsisAtFive(changedFiles) ==
  LET matched == FilterRequired(changedFiles)
  IN  IF Len(matched) > 0
      THEN [required |-> TRUE,
            reason |-> Line("High-impact patterns matched: %s%s",
                            <<SubSeq(matched, 1, IF Len(matched) < 5 THEN Len(matched) ELSE 5),
                              IF Len(matched) >= 5 THEN "..." ELSE "">>)]
      ELSE [required |-> FALSE,
            reason |-> Line("No high-impact file patterns matched.", <<>>)]

isDecisionRequired(changedFiles) ==
  LET matched == FilterRequired(changedFiles)
  IN  IF Len(matched) > 0
      THEN [required |-> TRUE,
            reason |-> Line("High-impact patterns matched: %s%s",
                            <<SubSeq(matched, 1, IF Len(matched) < 5 THEN Len(matched) ELSE 5),
                              IF Len(matched) > 5 THEN "..." ELSE "">>)]
      ELSE [required |-> FALSE,
            reason |-> Line("No high-impact file patterns matched.", <<>>)]

\* mutant of ADR_REF_REGEX: the flag i is dropped
ADR_REF_REGEX_CaseSensitive(s) ==
  /\ LitAt(s, 1, LitAdrDash, FALSE)
  /\ Len(s) > Len(LitAdrDash)
  /\ \A k \in (Len(LitAdrDash) + 1)..Len(s) : IsIdChar(s[k])

\* isAdrRef, main.ts:48 and 64-66: /^ADR-[a-zA-Z0-9_-]+$/i on ref.trim()
ADR_REF_REGEX(s) ==
  /\ LitAt(s, 1, LitAdrDash, TRUE)
  /\ Len(s) > Len(LitAdrDash)
  /\ \A k \in (Len(LitAdrDash) + 1)..Len(s) : IsIdChar(s[k])

isAdrRef(ref) == ADR_REF_REGEX(Trim(ref))

\* getCommitMessage, main.ts:106-112
getCommitMessage == IF git.logOk THEN git.message ELSE <<>>

\* mutant of getPrOrCommitText: the commit message is read along with the PR text
getPrOrCommitText_WithCommit ==
  LET parts == (IF Truthy(CI_PR_TITLE) THEN <<CI_PR_TITLE.v>> ELSE <<>>)
               \o (IF Truthy(CI_PR_BODY) THEN <<CI_PR_BODY.v>> ELSE <<>>)
               \o (IF Truthy(CI_COMMIT_MESSAGE) THEN <<CI_COMMIT_MESSAGE.v>>
                   ELSE <<getCommitMessage>>)
  IN  JoinWith(parts, <<"\n", "\n">>)

\* getPrOrCommitText, main.ts:114-121
getPrOrCommitText ==
  LET parts == (IF Truthy(CI_PR_TITLE) THEN <<CI_PR_TITLE.v>> ELSE <<>>)
               \o (IF Truthy(CI_PR_BODY) THEN <<CI_PR_BODY.v>> ELSE <<>>)
  IN  IF Len(parts) > 0 THEN JoinWith(parts, <<"\n", "\n">>)
      ELSE IF Truthy(CI_COMMIT_MESSAGE) THEN CI_COMMIT_MESSAGE.v
      ELSE getCommitMessage

----------------------------------------------------------------------------
(* validateRef, main.ts:129-183 *)

\* ValidateResult, main.ts:125-127
ResultOk(decisionStatus, hasLinkedPR) ==
  [ok |-> TRUE, status |-> 200, reason |-> <<>>,
   decisionStatus |-> decisionStatus, hasLinkedPR |-> hasLinkedPR]
ResultFail(status, reason) ==
  [ok |-> FALSE, status |-> status, reason |-> reason,
   decisionStatus |-> JsUndefined, hasLinkedPR |-> JsUndefined]
NoResult == ResultFail(-1, <<>>)

\* the parsed body of res.json(), main.ts:152-157
Body(valid, reason, status, hasLinkedPR) ==
  [valid |-> valid, reason |-> reason, status |-> status, hasLinkedPR |-> hasLinkedPR]
\* `.catch(() => ({}))`
EmptyBody == Body(JsUndefined, JsUndefined, JsUndefined, JsUndefined)

\* new URL(x) accepts x: a scheme, "://" and a host (other absolute forms are not drawn)
UrlParses(s) ==
  \E i \in 2..Len(s) :
    /\ LitAt(s, i, <<":","/","/">>, FALSE)
    /\ IsLetter(s[1])
    /\ \A k \in 1..(i - 1) : IsLetter(s[k]) \/ s[k] \in Digits \/ s[k] \in {"+", "-", "."}
    /\ i + 3 <= Len(s)
    /\ s[i + 3] # "/"

\* scheme://host of a URL that parses
UrlOrigin(s) ==
  LET i == CHOOSE j \in 2..Len(s) : LitAt(s, j, <<":","/","/">>, FALSE)
                                    /\ \A k \in 2..(j - 1) : ~LitAt(s, k, <<":","/","/">>, FALSE)
      rest == {k \in (i + 3)..Len(s) : s[k] = "/"}
  IN  IF rest = {} THEN s
      ELSE Slice(s, 1, (CHOOSE k \in rest : \A l \in rest : k <= l) - 1)

\* DECERN_BASE_URL.replace(/\/$/, ""), main.ts:134
StripTrailingSlash(s) ==
  IF s # <<>> /\ s[Len(s)] = "/" THEN Slice(s, 1, Len(s) - 1) ELSE s

\* new URL(path, base) for a path that starts with "/": the path replaces the base's
NewUrl(path, base) == UrlOrigin(base) \o path


\* mutant of RequestFor: the request is sent to the judge endpoint
RequestFor_JudgePath(ref) ==
  [ref |-> ref,
   url |-> NewUrl(<<"/","a","p","i","/","d","e","c","i","s","i","o","n","-","g","a","t","e","/","j","u","d","g","e">>, StripTrailingSlash(DECERN_BASE_URL.v) \o <<"/">>),
   param |-> IF isAdrRef(ref) THEN "adrRef" ELSE "decisionId",
   value |-> Trim(ref),
   authorization |-> <<"B","e","a","r","e","r"," ">> \o DECERN_CI_TOKEN.v]

\* main.ts:134-140 and 145-149: what is handed to fetch
RequestFor(ref) ==
  LET base == StripTrailingSlash(DECERN_BASE_URL.v)
      path == IF StartsWith(VALIDATE_PATH, <<"/">>) THEN VALIDATE_PATH
              ELSE <<"/">> \o VALIDATE_PATH
  IN  [ref |-> ref,
       url |-> NewUrl(path, base \o <<"/">>),
       param |-> IF isAdrRef(ref) THEN "adrRef" ELSE "decisionId",
       value |-> Trim(ref),
       authorization |-> <<"B","e","a","r","e","r"," ">> \o DECERN_CI_TOKEN.v]

\* mutant of ResponseOk: the HTTP status is not looked at
ResponseOk_AnyStatus(status, body) == body.valid.t = "true"

\* main.ts:158
ResponseOk(status, body) == status = 200 /\ body.valid.t = "true"

\* main.ts:152-174, and the catch of 175-182 for a body on which body.valid throws
ResultOfResponse(status, payload) ==
  IF payload.kind = "null"
  THEN ResultFail(0, <<"N","e","t","w","o","r","k"," ","e","r","r","o","r",":"," ","C","a","n","n","o","t"," ","r","e","a","d"," ","p","r","o","p","e","r","t","i","e","s"," ","o","f"," ","n","u","l","l"," ","(","r","e","a","d","i","n","g"," ","'","v","a","l","i","d","'",")",".">>)
  ELSE
    LET body == IF payload.kind = "json" THEN payload.body ELSE EmptyBody
        rawReason == IF IsNullish(body.reason) THEN <<"H","T","T","P"," ">> \o NumToString(status)
                     ELSE body.reason.v
        reason == IF StartsWith(rawReason, <<"H","T","T","P"," ">>) THEN rawReason
                  ELSE formatLabel(rawReason)
        statusDetail == IF ~IsNullish(body.status)
                        THEN <<" ","(","d","e","c","i","s","i","o","n"," ","s","t","a","t","u","s",":"," ">> \o formatLabel(body.status.v) \o <<")">>
                        ELSE <<>>
    IN  IF ResponseOk(status, body) THEN ResultOk(body.status, body.hasLinkedPR)
        ELSE ResultFail(status, reason \o statusDetail)

\* main.ts:177-181
TimeoutResult ==
  ResultFail(0, <<"R","e","q","u","e","s","t"," ","t","i","m","e","o","u","t"," ","a","f","t","e","r"," ">> \o NumToString(DECERN_GATE_TIMEOUT_MS) \o <<"m","s",".">>)
NetworkErrorResult == ResultFail(0, <<"N","e","t","w","o","r","k"," ","e","r","r","o","r",":"," ","f","e","t","c","h"," ","f","a","i","l","e","d",".">>)
\* main.ts:130-132
MissingConfigResult ==
  ResultFail(0, <<"D","E","C","E","R","N","_","B","A","S","E","_","U","R","L"," ","a","n","d"," ","D","E","C","E","R","N","_","C","I","_","T","O","K","E","N"," ","a","r","e"," ","r","e","q","u","i","r","e","d",".">>)

\* fetch's check of a header value: no line break inside
InvalidHeaderValue(s) == \E i \in DOMAIN s : s[i] \in {"\n", "\r"}

\* the message of the TypeError fetch rejects with for such a header: the
\* wording is the runtime's, which may quote the value (undici, node-fetch) or
\* name the header only
HeaderErrorMessages(value) ==
  { <<"H","e","a","d","e","r","s",".","a","p","p","e","n","d",":"," ","\"">> \o value \o <<"\""," ","i","s"," ","a","n"," ","i","n","v","a","l","i","d"," ","h","e","a","d","e","r"," ","v","a","l","u","e",".">>,
    <<"I","n","v","a","l","i","d"," ","c","h","a","r","a","c","t","e","r"," ","i","n"," ","h","e","a","d","e","r"," ","c","o","n","t","e","n","t"," ","[","\"","A","u","t","h","o","r","i","z","a","t","i","o","n","\"","]">> }

\* main.ts:180-181 for that TypeError
HeaderErrorResult(msg) == ResultFail(0, <<"N","e","t","w","o","r","k"," ","e","r","r","o","r",":"," ">> \o msg \o <<".">>)

IdleCall == [phase |-> "idle", timer |-> "none", status |-> 0]

\* what ended a call from outside: a response, a network error, the timeout, or nothing
NoPayload == [kind |-> "none", body |-> EmptyBody]
ResponseEvent(status, payload) == [kind |-> "response", status |-> status, payload |-> payload]
NetworkErrorEvent == [kind |-> "network", status |-> 0, payload |-> NoPayload]
TimeoutEvent == [kind |-> "timeout", status |-> 0, payload |-> NoPayload]
NoEvent == [kind |-> "none", status |-> 0, payload |-> NoPayload]

\* no earlier run to compare this one with; FirstOfTwo: this run is the first of two
NoEarlier == [pc |-> "none", log |-> <<>>, exitCode |-> -1, requests |-> <<>>, events |-> <<>>]
FirstOfTwo == [pc |-> "pending", log |-> <<>>, exitCode |-> -1, requests |-> <<>>, events |-> <<>>]

----------------------------------------------------------------------------
(* run(), main.ts:209-321 *)

\* mutant of missingEnv: the credential is not looked at
missingEnv_BaseUrlOnly ==
  IF ~Truthy(DECERN_BASE_URL) THEN <<"DECERN_BASE_URL">> ELSE <<>>

\* main.ts:210-212
missingEnv ==
  (IF ~Truthy(DECERN_BASE_URL) THEN <<"DECERN_BASE_URL">> ELSE <<>>)
  \o (IF ~Truthy(DECERN_CI_TOKEN) THEN <<"DECERN_CI_TOKEN">> ELSE <<>>)

\* main.ts:214-215
HeaderLines == <<Line("decern-gate - high-impact change check", <<>>), BlankLine>>

\* main.ts:221-225
GitErrorLines ==
  << Line("Diff: could not compute (git error)", <<>>),
     Line("Decision required: YES", <<>>),
     Line("Reason: cannot compute diff", <<>>),
     BlankLine,
     Line("Gate: blocked - fix git refs or set CI_BASE_SHA / CI_HEAD_SHA.", <<>>) >>

\* main.ts:235-236
policy == isDecisionRequired(git.files)
matchedFiles == IF policy.required THEN FilterRequired(git.files) ELSE <<>>

\* main.ts:229-243
PolicyLines ==
  (IF Truthy(CI_BASE_SHA) /\ Truthy(CI_HEAD_SHA)
   THEN <<Line("Diff: %s ... %s",
               <<Slice(CI_BASE_SHA.v, 1, IF Len(CI_BASE_SHA.v) < 7 THEN Len(CI_BASE_SHA.v) ELSE 7),
                 Slice(CI_HEAD_SHA.v, 1, IF Len(CI_HEAD_SHA.v) < 7 THEN Len(CI_HEAD_SHA.v) ELSE 7)>>)>>
   ELSE <<>>)
  \o << Line("Changed files (%d): %s",
             <<Len(git.files), formatFileList(git.files, MAX_FILES_LIST)>>),
        BlankLine,
        Line("Policy: decision required - %s", <<IF policy.required THEN "YES" ELSE "NO">>),
        Line("Reason: %s", <<policy.reason>>) >>
  \o (IF Len(matchedFiles) > 0
      THEN <<Line("Matched (high-impact): %s", <<formatFileList(matchedFiles, MAX_FILES_LIST)>>)>>
      ELSE <<>>)
  \o <<BlankLine>>

\* main.ts:250-251
extractedIds == extractDecisionIds(JsString(getPrOrCommitText))

\* main.ts:253
ReferencesLine == Line("References: found %d ref(s) (decision ID or ADR) - %s",
                       <<Len(extractedIds), extractedIds>>)


\* mutant of GitError: a failed diff is taken as an empty change and passes
GitError_FailsOpen ==
  /\ pc = "start"
  /\ ~git.diffOk
  /\ log' = HeaderLines \o <<Line("Gate: passed (no high-impact patterns matched).", <<>>)>>
  /\ exitCode' = 0
  /\ pc' = "done"
  /\ UNCHANGED <<env, git, ids, idx, call, deadlinePassed, requests, served, result, exVars>>

\* main.ts:217-227: getChangedFiles throws
GitError ==
  /\ pc = "start"
  /\ ~git.diffOk
  /\ log' = HeaderLines \o GitErrorLines
  /\ exitCode' = 1
  /\ pc' = "done"
  /\ UNCHANGED <<env, git, ids, idx, call, deadlinePassed, requests, served, result, exVars>>

\* main.ts:245-248
NotRequired ==
  /\ pc = "start"
  /\ git.diffOk
  /\ ~policy.required
  /\ log' = HeaderLines \o PolicyLines
            \o <<Line("Gate: passed (no high-impact patterns matched).", <<>>)>>
  /\ exitCode' = 0
  /\ pc' = "done"
  /\ UNCHANGED <<env, git, ids, idx, call, deadlinePassed, requests, served, result, exVars>>

\* main.ts:255-264
NoReference ==
  /\ pc = "start"
  /\ git.diffOk
  /\ policy.required
  /\ Len(extractedIds) = 0
  /\ ids' = extractedIds
  /\ log' = HeaderLines \o PolicyLines
            \o << ReferencesLine, BlankLine,
                  Line("Gate: blocked - high-impact change detected.", <<>>),
                  BlankLine,
                  Line("Add a Decern reference to the PR description or commit message: ...",
                       <<>>) >>
            \o DashboardLines
  /\ exitCode' = 1
  /\ pc' = "done"
  /\ UNCHANGED <<env, git, idx, call, deadlinePassed, requests, served, result, exVars>>


\* mutant of MissingEnv: the configuration is tested before the references are counted
MissingEnv_BeforeReferences ==
  /\ pc = "start"
  /\ git.diffOk
  /\ policy.required
  /\ Len(missingEnv) > 0
  /\ ids' = extractedIds
  /\ log' = HeaderLines \o PolicyLines
            \o << ReferencesLine, BlankLine,
                  Line("Gate: blocked - missing env: %s. Set them in CI to validate decisions.",
                       <<missingEnv>>) >>
  /\ exitCode' = 1
  /\ pc' = "done"
  /\ UNCHANGED <<env, git, idx, call, deadlinePassed, requests, served, result, exVars>>

\* main.ts:266-270
MissingEnv ==
  /\ pc = "start"
  /\ git.diffOk
  /\ policy.required
  /\ Len(extractedIds) > 0
  /\ Len(missingEnv) > 0
  /\ ids' = extractedIds
  /\ log' = HeaderLines \o PolicyLines
            \o << ReferencesLine, BlankLine,
                  Line("Gate: blocked - missing env: %s. Set them in CI to validate decisions.",
                       <<missingEnv>>) >>
  /\ exitCode' = 1
  /\ pc' = "done"
  /\ UNCHANGED <<env, git, idx, call, deadlinePassed, requests, served, result, exVars>>

\* main.ts:272-273: the loop is entered
EnterLoop ==
  /\ pc = "start"
  /\ git.diffOk
  /\ policy.required
  /\ Len(extractedIds) > 0
  /\ Len(missingEnv) = 0
  /\ ids' = extractedIds
  /\ idx' = 1
  /\ log' = HeaderLines \o PolicyLines \o <<ReferencesLine, BlankLine>>
  /\ pc' = "loop"
  /\ UNCHANGED <<env, git, call, deadlinePassed, requests, served, result, exitCode, exVars>>

\* mutant of LinkedPrCheck: `== null` in place of `=== undefined`
LinkedPrCheck_NullIsAbsent(r) ==
  IF ~DECERN_GATE_REQUIRE_LINKED_PR THEN "pass"
  ELSE IF IsNullish(r.hasLinkedPR) THEN "absent"
  ELSE IF r.hasLinkedPR.t # "true" THEN "unmet"
  ELSE "pass"

\* main.ts:287-304: "absent", "unmet" or "pass"
LinkedPrCheck(r) ==
  IF ~DECERN_GATE_REQUIRE_LINKED_PR THEN "pass"
  ELSE IF r.hasLinkedPR.t = "undefined" THEN "absent"
  ELSE IF r.hasLinkedPR.t # "true" THEN "unmet"
  ELSE "pass"

\* main.ts:276-285
OkLines(id, r) ==
  (IF ~IsNullish(r.decisionStatus)
   THEN <<Line("Decision %s: status %s.", <<id, formatLabel(r.decisionStatus.v)>>)>>
   ELSE <<Line("Decision %s: valid.", <<id>>)>>)
  \o (IF ~IsNullish(r.hasLinkedPR)
      THEN <<Line("Linked PR: %s.", <<IF Truthy(r.hasLinkedPR) THEN "yes" ELSE "no">>)>>
      ELSE <<>>)

\* main.ts:289-293, 297-301 and 306-307
VerdictLines(id, check) ==
  CASE check = "absent" ->
         << BlankLine,
            Line("Gate: blocked - DECERN_GATE_REQUIRE_LINKED_PR is set but the API did not return hasLinkedPR for decision %s. ...",
                 <<id>>) >> \o DashboardLines
    [] check = "unmet" ->
         << BlankLine,
            Line("Gate: blocked - this PR must be linked to the decision in Decern (DECERN_GATE_REQUIRE_LINKED_PR is set).",
                 <<>>) >> \o DashboardLines
    [] OTHER -> <<BlankLine, Line("Gate: passed.", <<>>)>>


\* main.ts:313-319
ExhaustedLines ==
  << BlankLine,
     Line("Gate: blocked - no referenced decision is valid.", <<>>),
     BlankLine,
     Line("Ensure the decision is approved in Decern, or add a reference to an approved decision (decision ID or ADR-XXX in PR/commit).",
          <<>>) >> \o DashboardLines

\* mutant of AfterValidate: an Ok result does not leave the loop while references remain
AfterValidate_KeepsLooping(r) ==
  LET id == ids[idx]
  IN  IF r.ok /\ idx = Len(ids)
      THEN /\ log' = log \o OkLines(id, r) \o VerdictLines(id, LinkedPrCheck(r))
           /\ exitCode' = IF LinkedPrCheck(r) = "pass" THEN 0 ELSE 1
           /\ pc' = "done"
           /\ idx' = idx
      ELSE IF idx < Len(ids)
      THEN /\ log' = Append(log, Line("Decision %s: FAIL - %s", <<id, r.reason>>))
           /\ idx' = idx + 1
           /\ pc' = "loop"
           /\ exitCode' = exitCode
      ELSE /\ log' = Append(log, Line("Decision %s: FAIL - %s", <<id, r.reason>>))
                     \o ExhaustedLines
           /\ idx' = idx + 1
           /\ pc' = "done"
           /\ exitCode' = 1


\* mutant of AfterValidate: a failed reference is tried a second time before the next one
AfterValidate_RetriesOnce(r) ==
  LET id == ids[idx]
      again == Len(requests) < 2 * idx
  IN  IF r.ok
      THEN /\ log' = log \o OkLines(id, r) \o VerdictLines(id, LinkedPrCheck(r))
           /\ exitCode' = IF LinkedPrCheck(r) = "pass" THEN 0 ELSE 1
           /\ pc' = "done"
           /\ idx' = idx
      ELSE IF again \/ idx < Len(ids)
      THEN /\ log' = Append(log, Line("Decision %s: FAIL - %s", <<id, r.reason>>))
           /\ idx' = IF again THEN idx ELSE idx + 1
           /\ pc' = "loop"
           /\ exitCode' = exitCode
      ELSE /\ log' = Append(log, Line("Decision %s: FAIL - %s", <<id, r.reason>>))
                     \o ExhaustedLines
           /\ idx' = idx + 1
           /\ pc' = "done"
           /\ exitCode' = 1

\* mutant of AfterValidate: an Ok reference that fails the linked-PR check is passed
\* over and the loop goes on to the next reference
AfterValidate_LinkedPrContinues(r) ==
  LET id == ids[idx]
  IN  IF r.ok /\ (LinkedPrCheck(r) = "pass" \/ idx = Len(ids))
      THEN /\ log' = log \o OkLines(id, r) \o VerdictLines(id, LinkedPrCheck(r))
           /\ exitCode' = IF LinkedPrCheck(r) = "pass" THEN 0 ELSE 1
           /\ pc' = "done"
           /\ idx' = idx
      ELSE IF r.ok
      THEN /\ log' = log \o OkLines(id, r)
           /\ idx' = idx + 1
           /\ pc' = "loop"
           /\ exitCode' = exitCode
      ELSE IF idx < Len(ids)
      THEN /\ log' = Append(log, Line("Decision %s: FAIL - %s", <<id, r.reason>>))
           /\ idx' = idx + 1
           /\ pc' = "loop"
           /\ exitCode' = exitCode
      ELSE /\ log' = Append(log, Line("Decision %s: FAIL - %s", <<id, r.reason>>))
                     \o ExhaustedLines
           /\ idx' = idx + 1
           /\ pc' = "done"
           /\ exitCode' = 1

\* the body of the loop after `await validateRef(id)` resolved with r, main.ts:275-311,
\* and what follows the loop, main.ts:313-320
AfterValidate(r) ==
  LET id == ids[idx]
  IN  IF r.ok
      THEN /\ log' = log \o OkLines(id, r) \o VerdictLines(id, LinkedPrCheck(r))
           /\ exitCode' = IF LinkedPrCheck(r) = "pass" THEN 0 ELSE 1
           /\ pc' = "done"
           /\ idx' = idx
      ELSE IF idx < Len(ids)
      THEN /\ log' = Append(log, Line("Decision %s: FAIL - %s", <<id, r.reason>>))
           /\ idx' = idx + 1
           /\ pc' = "loop"
           /\ exitCode' = exitCode
      ELSE /\ log' = Append(log, Line("Decision %s: FAIL - %s", <<id, r.reason>>))
                     \o ExhaustedLines
           /\ idx' = idx + 1
           /\ pc' = "done"
           /\ exitCode' = 1

\* validateRef returns r: the timer is left as timer, what the remote delivered is noted
\* (and, when two runs are to be compared, the event that ended the call)
FinishCall(r, timer, good, linked, event) ==
  /\ result' = r
  /\ call' = [phase |-> "idle", timer |-> timer, status |-> call.status]
  /\ served' = Append(served, [ref |-> ids[idx], good |-> good, hasLinkedPR |-> linked,
                               event |-> IF earlier = NoEarlier THEN NoEvent ELSE event])
  /\ AfterValidate(r)

\* validateRef(id) up to `await fetch(...)`, main.ts:129-149
IssueRequest ==
  /\ pc = "loop"
  /\ IF ~Truthy(DECERN_BASE_URL) \/ ~Truthy(DECERN_CI_TOKEN)
     THEN /\ FinishCall(MissingConfigResult, "none", FALSE, JsUndefined, NoEvent)
          /\ UNCHANGED <<deadlinePassed, requests>>
     ELSE IF ~UrlParses(StripTrailingSlash(DECERN_BASE_URL.v) \o <<"/">>)
     THEN \* new URL(...) throws a TypeError outside the try block
          /\ pc' = "threw"
          /\ UNCHANGED <<idx, call, deadlinePassed, requests, served, result, log, exitCode>>
     ELSE IF InvalidHeaderValue(RequestFor(ids[idx]).authorization)
     THEN \* fetch rejects before anything is sent; the catch clears the timer
          /\ requests' = Append(requests, RequestFor(ids[idx]))
          /\ \E msg \in HeaderErrorMessages(RequestFor(ids[idx]).authorization) :
                FinishCall(HeaderErrorResult(msg), "cleared", FALSE, JsUndefined, NoEvent)
          /\ UNCHANGED deadlinePassed
     ELSE /\ requests' = Append(requests, RequestFor(ids[idx]))
          /\ call' = [phase |-> "fetch", timer |-> "armed", status |-> 0]
          /\ deadlinePassed' = FALSE
          /\ pc' = "await"
          /\ UNCHANGED <<idx, served, result, log, exitCode>>
  /\ UNCHANGED <<env, git, ids, exVars>>

HttpStatuses == {200, 404}

JsonBodies ==
  { Body(JsTrue, JsUndefined, st, lp) :
      st \in {JsUndefined, JsString(<<"a","p","p","r","o","v","e","d">>)},
      lp \in {JsUndefined, JsNull, JsTrue, JsFalse} }
  \cup
  { Body(JsFalse, JsString(<<"n","o","t","_","a","p","p","r","o","v","e","d">>), JsUndefined, JsUndefined),
    Body(JsFalse, JsString(<<"n","o","t","_","a","p","p","r","o","v","e","d">>), JsString(<<"i","n","_","r","e","v","i","e","w">>), JsUndefined),
    Body(JsFalse, JsUndefined, JsNull, JsUndefined),
    Body(JsString(<<"t","r","u","e">>), JsUndefined, JsUndefined, JsTrue) }

\* what res.json() meets: a JSON object, the JSON literal null, or no JSON at all
Payloads ==
  {[kind |-> "json", body |-> b] : b \in JsonBodies}
  \cup {[kind |-> "null", body |-> EmptyBody], [kind |-> "unparseable", body |-> EmptyBody]}

\* the status line and headers arrive: fetch resolves, main.ts:145-150
RemoteHeaders ==
  /\ pc = "await"
  /\ call.phase = "fetch"
  /\ \E status \in HttpStatuses :
        call' = [phase |-> "body", timer |-> "cleared", status |-> status]
  /\ UNCHANGED <<env, git, pc, ids, idx, deadlinePassed, requests, served, result, log,
                 exitCode, exVars>>

\* the body ends (or breaks off): res.json() settles, main.ts:152-174
RemoteBody ==
  /\ pc = "await"
  /\ call.phase = "body"
  /\ \E payload \in Payloads :
        LET good == call.status = 200 /\ payload.kind = "json"
                    /\ payload.body.valid = JsTrue
        IN  FinishCall(ResultOfResponse(call.status, payload), "cleared", good,
                       IF good THEN payload.body.hasLinkedPR ELSE JsUndefined,
                       ResponseEvent(call.status, payload))
  /\ UNCHANGED <<env, git, ids, deadlinePassed, requests, exVars>>


\* mutant of NetworkError: the catch does not clear the timer
NetworkError_LeavesTimer ==
  /\ pc = "await"
  /\ call.phase = "fetch"
  /\ FinishCall(NetworkErrorResult, "armed", FALSE, JsUndefined, NetworkErrorEvent)
  /\ UNCHANGED <<env, git, ids, deadlinePassed, requests, exVars>>

\* fetch rejects with a network error, main.ts:175-181
NetworkError ==
  /\ pc = "await"
  /\ call.phase = "fetch"
  /\ FinishCall(NetworkErrorResult, "cleared", FALSE, JsUndefined, NetworkErrorEvent)
  /\ UNCHANGED <<env, git, ids, deadlinePassed, requests, exVars>>

\* DECERN_GATE_TIMEOUT_MS after the request was issued: the timer of main.ts:142
\* fires if it is still armed, aborts the fetch, and the catch returns the timeout
TimeoutElapses ==
  /\ pc = "await"
  /\ ~deadlinePassed
  /\ deadlinePassed' = TRUE
  /\ IF call.timer = "armed"
     THEN FinishCall(TimeoutResult, "fired", FALSE, JsUndefined, TimeoutEvent)
     ELSE UNCHANGED <<pc, idx, call, served, result, log, exitCode>>
  /\ UNCHANGED <<env, git, ids, requests, exVars>>

----------------------------------------------------------------------------
(* The runs explored: every combination of the environments, git answers    *)
(* and texts below.                                                         *)

\* texts of a PR title, a PR body or a commit message
TextNoRef == <<"f","i","x"," ","t","y","p","o">>
TextPrefix == <<"d","e","c","e","r","n",":"," ","1","2","3","4">>
TextThree == <<"A","D","R","-","0","0","1"," ","s","e","e"," ","d","e","c","e","r","n",":"," ","1","2","3","4"," ","/","d","e","c","i","s","i","o","n","s","/","a","b","c">>
TextLowerAdr == <<"a","d","r","-","7">>
TextAdrByPrefix == <<"d","e","c","e","r","n",":"," ","A","D","R","-","2"," ","D","E","C","E","R","N","-","9">>

\* CI_PR_TITLE, CI_PR_BODY, CI_COMMIT_MESSAGE and the message of the last commit
TextSources ==
  { [title |-> JsUndefined, body |-> JsString(b), commit |-> JsUndefined, gitLog |-> <<>>] :
      b \in {TextNoRef, TextPrefix, TextThree, TextLowerAdr, TextAdrByPrefix} }
  \cup
  { [title |-> JsString(TextPrefix), body |-> JsString(TextLowerAdr),
     commit |-> JsString(TextThree), gitLog |-> <<>>],
    [title |-> JsUndefined, body |-> JsString(<<" ">>),
     commit |-> JsString(TextPrefix), gitLog |-> TextThree],
    [title |-> JsUndefined, body |-> JsUndefined,
     commit |-> JsUndefined, gitLog |-> TextPrefix] }

\* outputs of `git diff --name-only`, after the split/trim/filter of main.ts:98-101
ChangedFileLists ==
  { <<>>,
    <<<<"R","E","A","D","M","E",".","m","d">>>>,
    <<<<"i","n","f","r","a","/","k","8","s","/","d","e","p","l","o","y","m","e","n","t",".","y","a","m","l">>>>,
    <<<<"i","n","t","e","r","n","a","l","/","a","p","p",".","t","s">>, <<"d","o","c","s","/","s","e","c","r","e","t",".","c","o","n","f">>>>,
    <<<<"s","r","c","\\","D","o","c","k","e","r","f","i","l","e">>, <<"R","E","A","D","M","E",".","m","d">>>> }

GitAnswers ==
  {[diffOk |-> TRUE, files |-> f, logOk |-> TRUE, message |-> <<>>] : f \in ChangedFileLists}
  \cup {[diffOk |-> FALSE, files |-> <<>>, logOk |-> TRUE, message |-> <<>>]}

BaseUrls == {JsUndefined, JsString(<<" ">>), JsString(<<"h","t","t","p","s",":","/","/","h",".","i","o">>), JsString(<<"h",".","i","o">>)}
\* a credential of two lines
TwoLineToken == JsString(<<"a", "\n", "b">>)
Tokens == {JsUndefined, JsString(<<" ">>), JsString(<<"t","o","k">>), TwoLineToken}
LinkedPrFlags == {JsUndefined, JsString(<<"T","R","U","E">>), JsString(<<"1">>)}
JudgeFlags == {JsUndefined, JsString(<<"t","r","u","e">>)}
ExtraPatternValues == {JsUndefined, JsString(<<"i","n","t","e","r","n","a","l","/",",","s","e","c","r","e","t",".","c","o","n","f">>)}

\* process.env of one run
EnvOf(b, t, l, x, j, s) ==
  [DECERN_BASE_URL |-> b, DECERN_CI_TOKEN |-> t,
   DECERN_GATE_TIMEOUT_MS |-> JsUndefined,
   DECERN_VALIDATE_PATH |-> JsUndefined,
   DECERN_GATE_REQUIRE_LINKED_PR |-> l,
   DECERN_GATE_EXTRA_PATTERNS |-> x,
   DECERN_GATE_JUDGE_ENABLED |-> j,
   CI_BASE_SHA |-> JsUndefined, CI_HEAD_SHA |-> JsUndefined,
   CI_PR_TITLE |-> s.title, CI_PR_BODY |-> s.body, CI_COMMIT_MESSAGE |-> s.commit,
   gitLog |-> s.gitLog]

\* the text is the PR body alone
BodyOnly(b) == [title |-> JsUndefined, body |-> JsString(b), commit |-> JsUndefined, gitLog |-> <<>>]

GoodBaseUrl == JsString(<<"h","t","t","p","s",":","/","/","h",".","i","o">>)
GoodToken == JsString(<<"t","o","k">>)
\* base URLs that end with a slash or carry a path of their own
SlashBaseUrl == JsString(<<"h","t","t","p","s",":","/","/","h",".","i","o","/">>)
PrefixBaseUrl == JsString(<<"h","t","t","p","s",":","/","/","h",".","i","o","/","p","r","e","f","i","x">>)

\* a PR text without a reference while the commit message, given or read from
\* git, has one
CommitOnlySources ==
  { [title |-> JsUndefined, body |-> JsString(TextNoRef),
     commit |-> JsString(TextPrefix), gitLog |-> <<>>],
    [title |-> JsString(TextNoRef), body |-> JsUndefined,
     commit |-> JsUndefined, gitLog |-> TextPrefix] }

\* every combination of base URL, credential, linked-PR flag and text, and with
\* a usable base URL and credential the runs that set the extra patterns,
\* enable the judge, have another form of base URL, or name the decision in
\* the commit message only
Environments ==
  { EnvOf(b, t, l, JsUndefined, JsUndefined, s) :
      b \in BaseUrls, t \in Tokens, l \in LinkedPrFlags, s \in TextSources }
  \cup
  { EnvOf(GoodBaseUrl, GoodToken, JsUndefined, x, JsUndefined, BodyOnly(b)) :
      x \in ExtraPatternValues, b \in {TextNoRef, TextPrefix} }
  \cup
  { EnvOf(GoodBaseUrl, GoodToken, l, JsUndefined, j, BodyOnly(b)) :
      l \in LinkedPrFlags, j \in JudgeFlags, b \in {TextNoRef, TextPrefix} }
  \cup
  { EnvOf(u, GoodToken, JsUndefined, JsUndefined, JsUndefined, BodyOnly(TextPrefix)) :
      u \in {SlashBaseUrl, PrefixBaseUrl} }
  \cup
  { EnvOf(GoodBaseUrl, GoodToken, JsUndefined, JsUndefined, JsUndefined, s) :
      s \in CommitOnlySources }

\* no function is being called on its own
ExOff ==
  /\ exIn = JsUndefined /\ exOut = <<>> /\ exPc = "off" /\ earlier = NoEarlier
  /\ reLastIndex = ZeroIndex

Init ==
  /\ \E e \in Environments, g \in GitAnswers :
        /\ env = [k \in DOMAIN e \ {"gitLog"} |-> e[k]]
        /\ git = [g EXCEPT !.message = e.gitLog]
  /\ pc = "start"
  /\ ids = <<>>
  /\ idx = 0
  /\ call = IdleCall
  /\ deadlinePassed = FALSE
  /\ requests = <<>>
  /\ served = <<>>
  /\ result = NoResult
  /\ log = <<>>
  /\ exitCode = -1
  /\ ExOff

Next ==
  \/ GitError
  \/ NotRequired
  \/ NoReference
  \/ MissingEnv
  \/ EnterLoop
  \/ IssueRequest
  \/ RemoteHeaders
  \/ RemoteBody
  \/ NetworkError
  \/ TimeoutElapses

Spec == Init /\ [][Next]_vars


----------------------------------------------------------------------------
(* The same job run twice: once with one credential, then, with the same   *)
(* changed paths, text and remote answers, with another.                   *)

OtherTokens == {JsString(<<" ","s","3","c","r","e","t"," ">>), TwoLineToken}

TwoRunEnvironments ==
  { EnvOf(b, GoodToken, JsUndefined, JsUndefined, JsUndefined, s) :
      b \in {GoodBaseUrl, JsUndefined, JsString(<<"h",".","i","o">>)},
      s \in { BodyOnly(TextNoRef), BodyOnly(TextPrefix),
              [title |-> JsString(TextPrefix), body |-> JsString(TextLowerAdr),
               commit |-> JsUndefined, gitLog |-> <<>>] } }

TwoRunsInit ==
  /\ \E e \in TwoRunEnvironments, g \in GitAnswers :
        /\ env = [k \in DOMAIN e \ {"gitLog"} |-> e[k]]
        /\ git = [g EXCEPT !.message = e.gitLog]
  /\ pc = "start"
  /\ ids = <<>>
  /\ idx = 0
  /\ call = IdleCall
  /\ deadlinePassed = FALSE
  /\ requests = <<>>
  /\ served = <<>>
  /\ result = NoResult
  /\ log = <<>>
  /\ exitCode = -1
  /\ exIn = JsUndefined /\ exOut = <<>> /\ exPc = "off"
  /\ earlier = FirstOfTwo
  /\ reLastIndex = ZeroIndex

\* the events that ended the calls of this run, in order
Events(s) == [k \in DOMAIN s |-> s[k].event]
\* those that came from outside the process
FromRemote(e) == e.kind # "none"
RemoteEvents(s) == SelectSeq(Events(s), FromRemote)

IsPrefix(a, b) == Len(a) <= Len(b) /\ SubSeq(b, 1, Len(a)) = a

\* the first run has ended: what it ended with is kept, and the job runs again
\* from the start with another credential
SecondRun ==
  /\ earlier = FirstOfTwo
  /\ pc \in {"done", "threw"}
  /\ earlier' = [pc |-> pc, log |-> log, exitCode |-> exitCode, requests |-> requests,
                 events |-> RemoteEvents(served)]
  /\ \E t \in OtherTokens : env' = [env EXCEPT !.DECERN_CI_TOKEN = t]
  /\ pc' = "start"
  /\ ids' = <<>>
  /\ idx' = 0
  /\ call' = IdleCall
  /\ deadlinePassed' = FALSE
  /\ requests' = <<>>
  /\ served' = <<>>
  /\ result' = NoResult
  /\ log' = <<>>
  /\ exitCode' = -1
  /\ UNCHANGED <<git, exIn, exOut, exPc, reLastIndex>>

\* the remote answers the second run as it answered the first: the calls ended
\* by the same events, and the status line now received is the one received then
SameResponses ==
  \/ earlier = FirstOfTwo
  \/ /\ IsPrefix(RemoteEvents(served), earlier.events)
     /\ call.phase = "body" =>
           /\ Len(RemoteEvents(served)) < Len(earlier.events)
           /\ earlier.events[Len(RemoteEvents(served)) + 1].kind = "response"
           /\ earlier.events[Len(RemoteEvents(served)) + 1].status = call.status

TwoRunsNext ==
  \/ GitError /\ SameResponses'
  \/ NotRequired /\ SameResponses'
  \/ NoReference /\ SameResponses'
  \/ MissingEnv /\ SameResponses'
  \/ EnterLoop /\ SameResponses'
  \/ IssueRequest /\ SameResponses'
  \/ RemoteHeaders /\ SameResponses'
  \/ RemoteBody /\ SameResponses'
  \/ NetworkError /\ SameResponses'
  \/ TimeoutElapses /\ SameResponses'
  \/ SecondRun

SpecTwoRuns == TwoRunsInit /\ [][TwoRunsNext]_vars

----------------------------------------------------------------------------
(* Specification of extractDecisionIds as a function of its argument: the  *)
(* argument is a text made of at most MaxAtoms pieces, or a non-string.    *)

MaxAtoms == 4

TextAtoms ==
  { <<"d","e","c","e","r","n",":">>,
    <<"D","E","C","E","R","N","-">>,
    <<"/","d","e","c","i","s","i","o","n","s","/">>,
    <<"A","D","R","-">>,
    <<"a","d","r","-">>,
    <<"1">>,
    <<"x","2">>,
    <<" ">> }

RECURSIVE TextsOf(_)
TextsOf(n) ==
  IF n = 0 THEN {<<>>}
  ELSE LET shorter == TextsOf(n - 1)
       IN  shorter \cup {t \o a : t \in shorter, a \in TextAtoms}

\* run() is not running
RunOff ==
  /\ env = [DECERN_BASE_URL |-> JsUndefined] /\ git = [diffOk |-> FALSE]
  /\ pc = "off" /\ ids = <<>> /\ idx = 0 /\ call = IdleCall /\ deadlinePassed = FALSE
  /\ requests = <<>> /\ served = <<>> /\ result = NoResult /\ log = <<>> /\ exitCode = -1

ExInit ==
  /\ exIn \in {JsString(t) : t \in TextsOf(MaxAtoms)} \cup {JsUndefined, JsNull}
  /\ exOut = <<>>
  /\ exPc = "call"
  /\ earlier = NoEarlier
  /\ reLastIndex = ZeroIndex
  /\ RunOff

ExCall ==
  /\ exPc = "call"
  /\ exOut' = extractDecisionIds(exIn)
  /\ exPc' = "ret"
  /\ UNCHANGED <<exIn, earlier, reLastIndex, runVars>>

ExNext == ExCall

SpecExtract == ExInit /\ [][ExNext]_vars



----------------------------------------------------------------------------
(* Specification of extractDecisionIds called again and again in one       *)
(* process: the regular expressions are module-level objects, so their     *)
(* lastIndex lives on from one call to the next. The arguments are the     *)
(* texts of at most MaxCallAtoms atoms and two values that are no string;  *)
(* again tells a later call from the first.                                *)

MaxCallAtoms == 2

CallArguments == {JsString(t) : t \in TextsOf(MaxCallAtoms)} \cup {JsUndefined, JsNull}

CallsInit ==
  /\ exIn \in {[text |-> t, again |-> FALSE] : t \in CallArguments}
  /\ exOut = <<>>
  /\ exPc = "call"
  /\ earlier = NoEarlier
  /\ reLastIndex = ZeroIndex
  /\ RunOff

\* extractDecisionIds(exIn.text) runs, main.ts:50-61
ExtractCall ==
  /\ exPc = "call"
  /\ IF exIn.text.t # "string" \/ exIn.text.v = <<>>
     THEN exOut' = <<>> /\ UNCHANGED reLastIndex
     ELSE LET r == ExtractWith(1, exIn.text.v, reLastIndex, <<>>)
          IN  exOut' = r.ids /\ reLastIndex' = r.lastIndex
  /\ exPc' = "ret"
  /\ UNCHANGED <<exIn, earlier, runVars>>

\* the caller goes on to call it with another argument
NextArgument ==
  /\ exPc = "ret"
  /\ exIn' \in {[text |-> t, again |-> TRUE] : t \in CallArguments}
  /\ exOut' = <<>>
  /\ exPc' = "call"
  /\ UNCHANGED <<earlier, reLastIndex, runVars>>

CallsNext == ExtractCall \/ NextArgument

SpecCalls == CallsInit /\ [][CallsNext]_vars


----------------------------------------------------------------------------
(* Specification of the policy step of run() as a function of the changed  *)
(* files, main.ts:235-236: the lists drawn are the selections of           *)
(* PolicyPaths, in its order and in the reverse order.                     *)

PolicyPaths ==
  << <<"R","E","A","D","M","E",".","m","d">>, <<"D","o","c","k","e","r","f","i","l","e">>, <<"i","n","f","r","a","/","m","a","i","n",".","t","f">>, <<"s","r","c","/","a","p","p",".","t","s">>, <<".","e","n","v">>,
     <<"k","8","s","/","d","e","p","l","o","y","m","e","n","t",".","y","a","m","l">>, <<"p","a","c","k","a","g","e","-","l","o","c","k",".","j","s","o","n">>, <<"t","s","c","o","n","f","i","g",".","j","s","o","n">> >>

RECURSIVE Selection(_, _)
\* the paths of s whose position is in picked, in the order of s
Selection(s, picked) ==
  IF s = <<>> THEN <<>>
  ELSE (IF Len(s) \in picked THEN Selection(SubSeq(s, 1, Len(s) - 1), picked) \o <<s[Len(s)]>>
        ELSE Selection(SubSeq(s, 1, Len(s) - 1), picked))

Reverse(s) == [i \in DOMAIN s |-> s[Len(s) + 1 - i]]

PolicyInit ==
  /\ exIn \in UNION { {Selection(PolicyPaths, picked), Reverse(Selection(PolicyPaths, picked))} :
                        picked \in SUBSET DOMAIN PolicyPaths }
  /\ exOut = <<>>
  /\ exPc = "call"
  /\ earlier = NoEarlier
  /\ reLastIndex = ZeroIndex
  /\ RunOff

\* main.ts:235-236
PolicyCall ==
  /\ exPc = "call"
  /\ exOut' = [policy |-> isDecisionRequired(exIn),
               matchedFiles |-> IF isDecisionRequired(exIn).required
                                THEN FilterRequired(exIn) ELSE <<>>]
  /\ exPc' = "ret"
  /\ UNCHANGED <<exIn, earlier, reLastIndex, runVars>>

PolicyNext == PolicyCall

SpecPolicy == PolicyInit /\ [][PolicyNext]_vars

----------------------------------------------------------------------------
(* Specification of pathMatchesRequired as a function of its arguments: a  *)
(* path made of a directory part and a final segment, and the optional     *)
(* array of extra patterns.                                                *)

PathDirs ==
  { <<>>, <<"s","r","c","/">>, <<"s","r","c","\\">>, <<"i","n","t","e","r","n","a","l","/">>, <<"k","8","s","/">>, <<".","g","i","t","h","u","b","/">>, <<"a","/",".","g","i","t","h","u","b","/">>, <<"x",".","g","i","t","h","u","b","/">> }

PathNames ==
  { <<>>, <<"R","E","A","D","M","E",".","m","d">>, <<"a","p","p",".","t","s">>, <<"s","e","c","r","e","t",".","c","o","n","f">>, <<"d","e","p","l","o","y","m","e","n","t",".","y","a","m","l">>,
    <<"D","o","c","k","e","r","f","i","l","e">>, <<"D","o","c","k","e","r","f","i","l","e",".","p","r","o","d">>, <<"d","e","p","e","n","d","a","b","o","t",".","y","m","l">>, <<"d","e","p","e","n","d","a","b","o","t",".","y","a","m","l">>,
    <<"m","a","i","n",".","t","f">>, <<"p","a","c","k","a","g","e","-","l","o","c","k",".","j","s","o","n">>, <<"v","a","l","u","e","s","-","p","r","o","d",".","y","a","m","l">>, <<".","e","n","v",".","l","o","c","a","l">> }

ExtraPatternLists ==
  { JsUndefined, JsArray(<<>>),
    JsArray(<<<<"i","n","t","e","r","n","a","l","/">>>>),
    JsArray(<<<<"s","e","c","r","e","t",".","c","o","n","f">>>>),
    JsArray(<<<<"r","c","/","a","p","p">>, <<"R","E","A","D","M","E",".","m","d">>>>),
    JsArray(<<<<"s","r","c","\\","a","p","p",".","t","s">>>>),
    JsArray(<<<<>>>>) }

MatchInit ==
  /\ exIn \in {[path |-> d \o n, extraPatterns |-> x] :
                 d \in PathDirs, n \in PathNames, x \in ExtraPatternLists}
  /\ exOut = <<>>
  /\ exPc = "call"
  /\ earlier = NoEarlier
  /\ reLastIndex = ZeroIndex
  /\ RunOff

MatchCall ==
  /\ exPc = "call"
  /\ exOut' = pathMatchesRequired(exIn.path, exIn.extraPatterns)
  /\ exPc' = "ret"
  /\ UNCHANGED <<exIn, earlier, reLastIndex, runVars>>

MatchNext == MatchCall

SpecMatch == MatchInit /\ [][MatchNext]_vars


----------------------------------------------------------------------------
(* Specification of the timeout read from the environment when the module  *)
(* is loaded: DECERN_GATE_TIMEOUT_MS is unset or a text of at most          *)
(* MaxTimeoutChars characters.                                             *)

MaxTimeoutChars == 4

TimeoutChars == {"0", "1", "9", "-", "x", " "}

RECURSIVE TimeoutTexts(_)
TimeoutTexts(n) ==
  IF n = 0 THEN {<<>>}
  ELSE LET shorter == TimeoutTexts(n - 1)
       IN  shorter \cup {t \o <<c>> : t \in shorter, c \in TimeoutChars}

ConfigInit ==
  /\ env \in {[DECERN_GATE_TIMEOUT_MS |-> x] :
                x \in {JsUndefined} \cup {JsString(t) : t \in TimeoutTexts(MaxTimeoutChars)}}
  /\ git = [diffOk |-> FALSE]
  /\ pc = "off" /\ ids = <<>> /\ idx = 0 /\ call = IdleCall /\ deadlinePassed = FALSE
  /\ requests = <<>> /\ served = <<>> /\ result = NoResult /\ log = <<>> /\ exitCode = -1
  /\ exIn = JsUndefined
  /\ exOut = <<>>
  /\ exPc = "call"
  /\ earlier = NoEarlier
  /\ reLastIndex = ZeroIndex

\* main.ts:13-16 is evaluated
ConfigRead ==
  /\ exPc = "call"
  /\ exOut' = DECERN_GATE_TIMEOUT_MS
  /\ exPc' = "ret"
  /\ UNCHANGED <<exIn, earlier, reLastIndex, runVars>>

ConfigNext == ConfigRead

SpecConfig == ConfigInit /\ [][ConfigNext]_vars


----------------------------------------------------------------------------
(* The diff payload handed to the judge, spec 4.4 and README "Exclusions     *)
(* applied by the CLI". A raw diff is the sequence of its per-file hunks,    *)
(* each with the path of its file and its serialized size in bytes; a text   *)
(* is the sequence of the pieces of hunks it is made of, with the number of  *)
(* bytes of each.                                                            *)

\* the per-file ceiling and the global ceiling, in bytes
PerFileCeiling == 1048576
GlobalCeiling == 2097152

\* the always-excluded suffixes the README names
ExcludedExtensions ==
  { <<".","p","n","g">>, <<".","j","p","g">>, <<".","g","i","f">>, <<".","w","e","b","p">>, <<".","s","v","g">>, <<".","m","p","4">>, <<".","p","d","f">>, <<".","w","o","f","f","2">> }

HasExcludedExtension(path) == \E e \in ExcludedExtensions : EndsWith(path, e)

RECURSIVE KeepHunks(_, _)
\* the hunks of s whose flag in keep is TRUE, in their order
KeepHunks(s, keep) ==
  IF s = <<>> THEN <<>>
  ELSE (IF Head(keep) THEN <<Head(s)>> ELSE <<>>) \o KeepHunks(Tail(s), Tail(keep))

RECURSIVE TotalBytes(_)
TotalBytes(s) == IF s = <<>> THEN 0 ELSE Head(s).size + TotalBytes(Tail(s))

RECURSIVE FirstBytes(_, _)
\* the first n bytes of the concatenation of the hunks of s
FirstBytes(s, n) ==
  IF s = <<>> \/ n = 0 THEN <<>>
  ELSE IF Head(s).size <= n THEN <<Head(s)>> \o FirstBytes(Tail(s), n - Head(s).size)
  ELSE <<[path |-> Head(s).path, size |-> n]>>

PathsOf(s) == [i \in DOMAIN s |-> s[i].path]

\* mutant of build: the size test of step 3 is made on what is left after the cut
build_CutBeforeSizeTest(rawDiff) ==
  LET byExt == [i \in DOMAIN rawDiff |-> HasExcludedExtension(rawDiff[i].path)]
      afterExt == KeepHunks(rawDiff, [i \in DOMAIN rawDiff |-> ~byExt[i]])
      cut == FirstBytes(afterExt, GlobalCeiling)
      bySize == [i \in DOMAIN cut |-> cut[i].size > PerFileCeiling]
  IN  [text |-> KeepHunks(cut, [i \in DOMAIN cut |-> ~bySize[i]]),
       truncated |-> TotalBytes(afterExt) > GlobalCeiling,
       excludedPaths |-> PathsOf(KeepHunks(rawDiff, byExt)) \o PathsOf(KeepHunks(cut, bySize))]

\* mutant of build: a text that fills the ceiling exactly is reported as truncated
build_TruncatedAtCeiling(rawDiff) ==
  LET byExt == [i \in DOMAIN rawDiff |-> HasExcludedExtension(rawDiff[i].path)]
      afterExt == KeepHunks(rawDiff, [i \in DOMAIN rawDiff |-> ~byExt[i]])
      bySize == [i \in DOMAIN afterExt |-> afterExt[i].size > PerFileCeiling]
      eligible == KeepHunks(afterExt, [i \in DOMAIN afterExt |-> ~bySize[i]])
  IN  [text |-> FirstBytes(eligible, GlobalCeiling),
       truncated |-> TotalBytes(eligible) >= GlobalCeiling,
       excludedPaths |-> PathsOf(KeepHunks(rawDiff, byExt)) \o PathsOf(KeepHunks(afterExt, bySize))]

\* build(rawDiff, exclusionRule), spec 4.4 steps 1-4
build(rawDiff) ==
  LET byExt == [i \in DOMAIN rawDiff |-> HasExcludedExtension(rawDiff[i].path)]
      afterExt == KeepHunks(rawDiff, [i \in DOMAIN rawDiff |-> ~byExt[i]])
      bySize == [i \in DOMAIN afterExt |-> afterExt[i].size > PerFileCeiling]
      eligible == KeepHunks(afterExt, [i \in DOMAIN afterExt |-> ~bySize[i]])
  IN  [text |-> FirstBytes(eligible, GlobalCeiling),
       truncated |-> TotalBytes(eligible) > GlobalCeiling,
       excludedPaths |-> PathsOf(KeepHunks(rawDiff, byExt)) \o PathsOf(KeepHunks(afterExt, bySize))]

\* README: what the judge endpoint can answer a request with - a status and
\* a body {allowed, reason?}
PlanReason == <<"J","u","d","g","e"," ","i","s"," ","a","v","a","i","l","a","b","l","e"," ","o","n"," ","T","e","a","m"," ","p","l","a","n"," ","a","n","d"," ","a","b","o","v","e",".">>
OtherReason == <<"D","i","f","f"," ","i","n","t","r","o","d","u","c","e","s"," ","a"," ","n","e","w"," ","D","B"," ","c","o","l","u","m","n"," ","n","o","t"," ","m","e","n","t","i","o","n","e","d"," ","i","n"," ","t","h","e"," ","d","e","c","i","s","i","o","n",".">>

JudgeAnswers ==
  [status : {200, 500}, allowed : {JsTrue, JsFalse},
   reason : {JsUndefined, JsString(PlanReason), JsString(OtherReason)}]

\* spec 4.5: Allowed, PlanUnavailable or Blocked
JudgeOutcome(a) ==
  IF a.status \notin 200..299 THEN "Blocked"
  ELSE IF a.allowed = JsTrue THEN "Allowed"
  ELSE IF a.reason.t = "string" /\ Includes(a.reason.v, <<"a","v","a","i","l","a","b","l","e"," ","o","n"," ","T","e","a","m"," ","p","l","a","n">>)
  THEN "PlanUnavailable"
  ELSE "Blocked"

\* spec, GateOrchestrator: the exit code of the judge step from the answer to the request
\* that carried the payload - Allowed or PlanUnavailable is 0, Blocked is 1
JudgeStepExit(payload, a) ==
  IF JudgeOutcome(a) \in {"Allowed", "PlanUnavailable"} THEN 0 ELSE 1

----------------------------------------------------------------------------
(* Specification of build called alone, followed by the judge step: every   *)
(* raw diff of at most MaxHunks hunks over the paths and sizes below.       *)

MaxHunks == 3

HunkPaths == { <<"s","r","c","/","a","p","p",".","t","s">>, <<"l","o","g","o",".","p","n","g">>, <<"d","b","/","s","c","h","e","m","a",".","s","q","l">>, <<"i","n","f","r","a","/","m","a","i","n",".","t","f">> }

HunkSizes == {1, PerFileCeiling - 1, PerFileCeiling, PerFileCeiling + 1}

RECURSIVE RawDiffs(_)
\* the raw diffs of at most n hunks, one hunk per file
RawDiffs(n) ==
  IF n = 0 THEN {<<>>}
  ELSE LET shorter == RawDiffs(n - 1)
       IN  shorter \cup
           { Append(d, [path |-> p, size |-> z]) :
               d \in {x \in shorter : Len(x) = n - 1}, p \in HunkPaths, z \in HunkSizes }

OneHunkPerFile(d) == \A i, j \in DOMAIN d : d[i].path = d[j].path => i = j

VerdictAnswers ==
  {a \in JudgeAnswers : a.status = 200 /\ a.reason = JsUndefined}

BuildInit ==
  /\ exIn \in {[rawDiff |-> d, answer |-> a] :
                 d \in {x \in RawDiffs(MaxHunks) : OneHunkPerFile(x)}, a \in VerdictAnswers}
  /\ exOut = <<>>
  /\ exPc = "call"
  /\ earlier = NoEarlier
  /\ reLastIndex = ZeroIndex
  /\ RunOff

BuildCall ==
  /\ exPc = "call"
  /\ exOut' = [payload |-> build(exIn.rawDiff),
               exit |-> JudgeStepExit(build(exIn.rawDiff), exIn.answer)]
  /\ exPc' = "ret"
  /\ UNCHANGED <<exIn, earlier, reLastIndex, runVars>>

BuildNext == BuildCall

SpecBuild == BuildInit /\ [][BuildNext]_vars

----------------------------------------------------------------------------
(* Properties of extractDecisionIds *)

\* every match of one pattern in s, scanning from position from as String.matchAll does
RECURSIVE GlobalMatches(_, _, _)
GlobalMatches(re, s, from) ==
  LET m == RegExpExec(re, s, from)
  IN  IF ~m.ok THEN {} ELSE {m} \cup GlobalMatches(re, s, m.next)

\* the captures of all four pattern forms: [form, cs, val]
Captures(s) ==
  UNION { { [form |-> re, cs |-> m.cs, val |-> Slice(s, m.cs, m.ce)] :
              m \in GlobalMatches(re, s, 1) } : re \in Range(PatternForms) }

CapturedValues(s) == {c.val : c \in Captures(s)}

\* where value v first appears as a reference in s
FirstAppearance(s, v) ==
  LET at == {c.cs : c \in {d \in Captures(s) : d.val = v}}
  IN  CHOOSE p \in at : \A q \in at : p <= q

NoDuplicates(seq) == \A i, j \in DOMAIN seq : i # j => seq[i] # seq[j]

\* C7: extract(text) lists the distinct reference values in the order of their
\* first appearance in the text: a value whose first occurrence starts earlier
\* comes earlier in the result, whatever pattern form matched it.
C7_FirstAppearanceOrder ==
  (exPc = "ret" /\ exIn.t = "string") =>
    \A i, j \in DOMAIN exOut :
      FirstAppearance(exIn.v, exOut[i]) < FirstAppearance(exIn.v, exOut[j]) => i < j

\* C8: extract(text) holds every value captured by any of the four pattern
\* forms exactly once (compared literally, case-sensitively), and an empty or
\* non-string argument gives the empty sequence.
C8_DedupComplete ==
  exPc = "ret" =>
    /\ NoDuplicates(exOut)
    /\ (exIn.t = "string" => Range(exOut) = CapturedValues(exIn.v))
    /\ (exIn.t # "string" \/ exIn.v = <<>> => exOut = <<>>)

\* C8 witness: a text where two captures give the same value and two values differ
C8_Witness ==
  /\ exPc = "ret"
  /\ exIn.t = "string"
  /\ Len(exOut) >= 2
  /\ Cardinality(Captures(exIn.v)) > Len(exOut)

----------------------------------------------------------------------------
(* Properties of run() *)

Last(seq) == seq[Len(seq)]

\* at least one changed path is high-impact
HighImpactChange ==
  git.diffOk /\ \E i \in DOMAIN git.files : pathMatchesRequired(git.files[i], JsUndefined)

\* the environment variable is unset or holds only white space
UnsetOrBlank(x) == x.t # "string" \/ \A i \in DOMAIN x.v : IsSpace(x.v[i])

GateMessages ==
  { "Gate: blocked - fix git refs or set CI_BASE_SHA / CI_HEAD_SHA.",
    "Gate: passed (no high-impact patterns matched).",
    "Gate: blocked - high-impact change detected.",
    "Gate: blocked - missing env: %s. Set them in CI to validate decisions.",
    "Gate: blocked - DECERN_GATE_REQUIRE_LINKED_PR is set but the API did not return hasLinkedPR for decision %s. ...",
    "Gate: blocked - this PR must be linked to the decision in Decern (DECERN_GATE_REQUIRE_LINKED_PR is set).",
    "Gate: passed.",
    "Gate: blocked - no referenced decision is valid." }

\* the verdict line of the log
GateLine ==
  LET at == {k \in DOMAIN log : log[k].msg \in GateMessages}
  IN  IF at = {} THEN "" ELSE log[CHOOSE k \in at : \A j \in at : j <= k].msg

\* C1: when a changed path is high-impact, run() returns 0 only if a validate
\* call for one of the extracted references completed with status 200 and a
\* body whose valid is exactly true; when every reference's call has ended
\* otherwise (timeout, network error, other status, unparseable body, valid
\* not true), run() has returned 1.
C1_FailClosed ==
  /\ (pc = "done" /\ exitCode = 0 /\ HighImpactChange)
       => \E k \in DOMAIN served : served[k].good /\ served[k].ref \in Range(ids)
  /\ (Len(ids) > 0 /\ Len(served) = Len(ids) /\ \A k \in DOMAIN served : ~served[k].good)
       => (pc = "done" /\ exitCode = 1)

\* C1 witness: a run that passes on a reference validated after an earlier one failed
C1_Witness ==
  /\ pc = "done" /\ exitCode = 0 /\ HighImpactChange
  /\ Len(served) >= 2
  /\ ~served[1].good
  /\ Last(served).good

\* C2: references are validated strictly in extraction order, and the first Ok
\* outcome ends the loop: it is the reported result and no request is made
\* for any later reference.
C2_InOrderShortCircuit ==
  /\ Len(requests) <= Len(ids)
  /\ \A k \in DOMAIN requests : requests[k].ref = ids[k]
  /\ \A k \in DOMAIN served : served[k].ref = ids[k]
  /\ \A k \in DOMAIN served :
        served[k].good => /\ k = Len(served)
                          /\ Len(requests) = k
                          /\ pc = "done"
                          /\ result.ok

\* C2 witness: three references, the first fails, the second is Ok, the third is never asked
C2_Witness ==
  /\ Len(ids) = 3
  /\ Len(served) = 2
  /\ ~served[1].good
  /\ served[2].good
  /\ Len(requests) = 2
  /\ pc = "done"

\* C3: every run ends with exactly one verdict, exit code 0 or 1; none ends
\* by an error escaping run().
C3_AlwaysVerdict ==
  /\ pc # "threw"
  /\ pc = "done" => exitCode \in {0, 1}

\* C4: once the timeout has elapsed after a request was issued, the request
\* is no longer pending: validateRef has returned the timeout failure.
C4_TimeoutBoundsCall ==
  deadlinePassed => (call.phase = "idle" /\ result = TimeoutResult)

\* C5: a decision is required, a reference is found and the base URL or the
\* credential is unset or blank: run() returns 1 with the configuration-error
\* message and no request is ever made.
C5_MissingConfigBlocks ==
  (/\ pc # "start"
   /\ UnsetOrBlank(env.DECERN_BASE_URL) \/ UnsetOrBlank(env.DECERN_CI_TOKEN)
   /\ HighImpactChange
   /\ Len(extractedIds) > 0)
    => /\ pc = "done"
       /\ exitCode = 1
       /\ requests = <<>>
       /\ GateLine = "Gate: blocked - missing env: %s. Set them in CI to validate decisions."
       /\ Last(log).args[1] =
            (IF UnsetOrBlank(env.DECERN_BASE_URL) THEN <<"DECERN_BASE_URL">> ELSE <<>>)
            \o (IF UnsetOrBlank(env.DECERN_CI_TOKEN) THEN <<"DECERN_CI_TOKEN">> ELSE <<>>)

\* C5 witness: the token is blank, the base URL is set, and the run has blocked
C5_Witness ==
  /\ pc = "done"
  /\ HighImpactChange
  /\ Len(extractedIds) > 0
  /\ env.DECERN_CI_TOKEN.t = "string"
  /\ UnsetOrBlank(env.DECERN_CI_TOKEN)
  /\ ~UnsetOrBlank(env.DECERN_BASE_URL)
  /\ exitCode = 1

\* C6: with linked-PR enforcement on, a run whose reference validated Ok
\* returns 0 only if the response carried hasLinkedPR exactly true; a response
\* without the field blocks with the integration-error message, a response
\* with the field not true blocks with the other message.
C6_LinkedPrEnforced ==
  DECERN_GATE_REQUIRE_LINKED_PR =>
    \A k \in DOMAIN served :
      served[k].good =>
        /\ pc = "done"
        /\ exitCode = 0 <=> served[k].hasLinkedPR = JsTrue
        /\ served[k].hasLinkedPR = JsUndefined =>
             (exitCode = 1 /\ GateLine = "Gate: blocked - DECERN_GATE_REQUIRE_LINKED_PR is set but the API did not return hasLinkedPR for decision %s. ...")
        /\ served[k].hasLinkedPR \notin {JsUndefined, JsTrue} =>
             (exitCode = 1 /\ GateLine = "Gate: blocked - this PR must be linked to the decision in Decern (DECERN_GATE_REQUIRE_LINKED_PR is set).")

\* C6 witness: enforcement is on and the Ok response carried hasLinkedPR: null
C6_Witness ==
  /\ DECERN_GATE_REQUIRE_LINKED_PR
  /\ pc = "done"
  /\ served # <<>>
  /\ Last(served).good
  /\ Last(served).hasLinkedPR = JsNull

\* the value is ADR- (in any letter case when anyCase) followed by one or more
\* letters, digits, hyphens or underscores
AdrShape(v, anyCase) ==
  /\ Len(v) >= 5
  /\ IF anyCase THEN <<ToUpper(v[1]), ToUpper(v[2]), ToUpper(v[3]), v[4]>> = <<"A", "D", "R", "-">>
     ELSE SubSeq(v, 1, 4) = <<"A", "D", "R", "-">>
  /\ \A k \in 5..Len(v) : IsIdChar(v[k])

\* C9 as stated: a request carries adrRef exactly when the value is the
\* literal prefix ADR- followed by one or more letters, digits, hyphens or
\* underscores, and decisionId otherwise.
C9_ParamByLiteralShape ==
  \A k \in DOMAIN requests :
    /\ requests[k].param \in {"adrRef", "decisionId"}
    /\ requests[k].param = "adrRef" <=> AdrShape(requests[k].value, FALSE)

\* C9 amended: a request carries adrRef exactly when the value is ADR- in
\* any letter case followed by one or more letters, digits, hyphens or
\* underscores, and decisionId otherwise; only the value decides.
C9_ParamByShapeAnyCase ==
  \A k \in DOMAIN requests :
    /\ requests[k].param \in {"adrRef", "decisionId"}
    /\ requests[k].param = "adrRef" <=> AdrShape(requests[k].value, TRUE)

\* C9 witness: in one run the reference 1234 was sent as decisionId and the
\* lower-case reference adr-7 as adrRef
C9_Witness ==
  /\ Len(requests) > 1
  /\ requests[1].param = "decisionId"
  /\ \E k \in DOMAIN requests :
        requests[k].value = <<"a","d","r","-","7">> /\ requests[k].param = "adrRef"

\* DECERN_GATE_EXTRA_PATTERNS as the README describes it: comma-separated patterns
ConfiguredExtraPatterns ==
  IF env.DECERN_GATE_EXTRA_PATTERNS.t = "string"
  THEN SplitOn(env.DECERN_GATE_EXTRA_PATTERNS.v, ",")
  ELSE <<>>

\* README: a pattern with "/" matches a path that includes it, another the exact basename
MatchesExtraPattern(path, p) ==
  IF "/" \in Range(p) THEN Includes(path, p) ELSE Basename(path) = p

\* C10: a changed path that matches a configured extra pattern makes the
\* policy outcome required = true, and the gate demands a decision.
C10_ExtraPatternsTakePart ==
  (/\ pc = "done"
   /\ git.diffOk
   /\ \E i \in DOMAIN git.files : \E k \in DOMAIN ConfiguredExtraPatterns :
         MatchesExtraPattern(git.files[i], ConfiguredExtraPatterns[k]))
    => /\ policy.required
       /\ GateLine # "Gate: passed (no high-impact patterns matched)."


----------------------------------------------------------------------------
(* Properties of pathMatchesRequired *)

\* the extra patterns handed to the matcher, none when the argument is left out
ExtraList(x) == IF x.t = "array" THEN x.v ELSE <<>>

\* rules on the basename that are prefix/suffix tests
RuleStructuralOnBasename(basename) == TerraformHit(basename) \/ StructuralHit(basename)

\* at least one of the five rules named by C11 hits
ListedRuleHits(path, extraPatterns) ==
  LET normalized == NormalizePath(path)
      basename == Basename(normalized)
      xs == ExtraList(extraPatterns)
  IN  \/ \E k \in DOMAIN xs : "/" \in Range(xs[k]) /\ Includes(normalized, xs[k])
      \/ \E k \in DOMAIN xs : "/" \notin Range(xs[k]) /\ basename = xs[k]
      \/ \E k \in DOMAIN REQUIRED_PATH_PATTERNS : Includes(normalized, REQUIRED_PATH_PATTERNS[k])
      \/ basename \in Range(REQUIRED_BASENAMES)
      \/ RuleStructuralOnBasename(basename)

\* the dependency-bot rule: the normalized path is .github/dependabot.yml (or
\* .yaml) or ends with that below a "/"
RuleDependabotPath(path) ==
  LET normalized == NormalizePath(path)
      names == {<<".","g","i","t","h","u","b","/","d","e","p","e","n","d","a","b","o","t",".","y","m","l">>, <<".","g","i","t","h","u","b","/","d","e","p","e","n","d","a","b","o","t",".","y","a","m","l">>}
  IN  \E n \in names : normalized = n \/ EndsWith(normalized, <<"/">> \o n)

\* C11 as stated: matches(path, extraPatterns) is true exactly when an extra
\* pattern with a separator is a substring of the normalized path, an extra
\* pattern without one equals the basename, a catalogue path pattern is a
\* substring of the normalized path, a catalogue basename equals the basename,
\* or a structural prefix/suffix rule on the basename hits; false otherwise.
C11_MatchesIffListedRule ==
  exPc = "ret" => (exOut <=> ListedRuleHits(exIn.path, exIn.extraPatterns))

\* C11 amended: the same, with one more rule that looks at the whole path and
\* not at the basename: the dependency-bot configuration path.
C11_MatchesIffAnyRule ==
  exPc = "ret" =>
    (exOut <=> (ListedRuleHits(exIn.path, exIn.extraPatterns) \/ RuleDependabotPath(exIn.path)))

\* C11 witness: a/.github/dependabot.yml is matched, by the path rule alone
C11_Witness ==
  /\ exPc = "ret"
  /\ exIn.path = <<"a","/",".","g","i","t","h","u","b","/","d","e","p","e","n","d","a","b","o","t",".","y","m","l">>
  /\ exIn.extraPatterns = JsUndefined
  /\ exOut = TRUE
  /\ ~ListedRuleHits(exIn.path, exIn.extraPatterns)


----------------------------------------------------------------------------
(* Properties of run(), continued *)

\* README: the judge step is enabled by DECERN_GATE_JUDGE_ENABLED = true or 1
JudgeEnabled ==
  LET x == env.DECERN_GATE_JUDGE_ENABLED
  IN  x.t = "string" /\ (LowerCase(x.v) = <<"t","r","u","e">> \/ x.v = <<"1">>)

\* README: the judge endpoint is DECERN_JUDGE_PATH, /api/decision-gate/judge by default
IsJudgeRequest(r) == EndsWith(r.url, <<"/","a","p","i","/","d","e","c","i","s","i","o","n","-","g","a","t","e","/","j","u","d","g","e">>)

\* C12: with the judge enabled, a run whose reference validated Ok returns 0
\* only after the judge was asked (and allowed the change): no run passes on
\* the validate outcome alone.
C12_JudgeIsFinalWord ==
  (/\ JudgeEnabled
   /\ pc = "done"
   /\ exitCode = 0
   /\ \E k \in DOMAIN served : served[k].good)
    => \E k \in DOMAIN requests : IsJudgeRequest(requests[k])


\* no changed path matches the policy: neither the catalogue and structural
\* rules nor a configured extra pattern
NoPathMatchesPolicy ==
  /\ git.diffOk
  /\ \A i \in DOMAIN git.files :
        ~pathMatchesRequired(git.files[i], JsArray(ConfiguredExtraPatterns))

\* the log holds a line written from this template
Logged(msg) == \E k \in DOMAIN log : log[k].msg = msg

ReferencesMsg == "References: found %d ref(s) (decision ID or ADR) - %s"

\* C13: when no changed path matches the policy, run() returns 0 with the
\* not-required verdict, extracts no reference and makes no request, whatever
\* the text holds and whether or not the base URL and credential are set.
C13_NotRequiredPasses ==
  (pc # "start" /\ NoPathMatchesPolicy)
    => /\ pc = "done"
       /\ exitCode = 0
       /\ GateLine = "Gate: passed (no high-impact patterns matched)."
       /\ ids = <<>>
       /\ ~Logged(ReferencesMsg)
       /\ requests = <<>>

\* C13 witness: README.md alone changed, the text holds three references, the
\* base URL is unset, and the run has passed
C13_Witness ==
  /\ pc = "done"
  /\ git.files = <<<<"R","E","A","D","M","E",".","m","d">>>>
  /\ Len(extractedIds) = 3
  /\ env.DECERN_BASE_URL = JsUndefined
  /\ exitCode = 0


\* C14: when the changed-path set cannot be computed, run() returns 1 at
\* once with the git-error verdict: no policy line, no reference extraction,
\* no request.
C14_GitErrorBlocks ==
  (pc # "start" /\ ~git.diffOk)
    => /\ pc = "done"
       /\ exitCode = 1
       /\ log = HeaderLines \o GitErrorLines
       /\ GateLine = "Gate: blocked - fix git refs or set CI_BASE_SHA / CI_HEAD_SHA."
       /\ ~Logged("Policy: decision required - %s")
       /\ ~Logged(ReferencesMsg)
       /\ ids = <<>>
       /\ requests = <<>>

\* C14 witness: the diff failed in a run whose text holds a reference and whose
\* base URL and credential are usable, and the run has blocked
C14_Witness ==
  /\ pc = "done"
  /\ ~git.diffOk
  /\ Len(extractedIds) > 0
  /\ Len(missingEnv) = 0
  /\ exitCode = 1


\* none of the four pattern forms matches anywhere in the text
NoReferenceIn(s) == \A k \in DOMAIN PatternForms : ~RegExpExec(PatternForms[k], s, 1).ok

RemediationMsg == "Add a Decern reference to the PR description or commit message: ..."

\* C15: a decision is required and no pattern form matches anywhere in the
\* text: run() returns 1 with the remediation message and makes no request,
\* with or without the base URL and the credential.
C15_NoReferenceBlocks ==
  (/\ pc # "start"
   /\ HighImpactChange
   /\ NoReferenceIn(getPrOrCommitText))
    => /\ pc = "done"
       /\ exitCode = 1
       /\ GateLine = "Gate: blocked - high-impact change detected."
       /\ Logged(RemediationMsg)
       /\ ~Logged("Gate: blocked - missing env: %s. Set them in CI to validate decisions.")
       /\ requests = <<>>

\* C15 witness: a high-impact change, a text without reference, neither base
\* URL nor credential usable, and the run has blocked
C15_Witness ==
  /\ pc = "done"
  /\ HighImpactChange
  /\ NoReferenceIn(getPrOrCommitText)
  /\ Len(missingEnv) = 2
  /\ exitCode = 1


\* the text's distinct references
DistinctReferences == CapturedValues(getPrOrCommitText)

FailMsg == "Decision %s: FAIL - %s"

\* C16: no reference is asked about twice: the requests of a run are for
\* pairwise different references among those extracted, each finished call
\* made exactly one request, and there are never more requests than distinct
\* extracted references.
C16_NoRetry ==
  /\ \A i, j \in DOMAIN requests : i # j => requests[i].ref # requests[j].ref
  /\ \A i \in DOMAIN requests : requests[i].ref \in Range(ids)
  /\ Len(requests) <= Cardinality(Range(ids))
  /\ Len(served) <= Len(requests)
  /\ Len(requests) <= Len(served) + 1

\* C16 witness: the first reference timed out, the second met a network error,
\* and the third request is the last one of the run
C16_Witness ==
  /\ pc = "done"
  /\ Len(requests) = 3
  /\ Cardinality(DistinctReferences) = 3
  /\ \E k \in DOMAIN log :
        log[k] = Line(FailMsg, <<ids[1], TimeoutResult.reason>>)
  /\ \E k \in DOMAIN log :
        log[k] = Line(FailMsg, <<ids[2], NetworkErrorResult.reason>>)


----------------------------------------------------------------------------
(* Properties of two runs that differ in the credential only *)

\* a request without its Authorization header
Scrub(reqs) == [k \in DOMAIN reqs |-> [ref |-> reqs[k].ref, url |-> reqs[k].url,
                                       param |-> reqs[k].param, value |-> reqs[k].value]]

SecondRunGoing == earlier.pc \in {"done", "threw"}

BearerPrefix == <<"B","e","a","r","e","r"," ">>

\* C17: the credential is in no log line and in no URL or query value, only
\* in the Authorization header (Bearer and the credential); and the second
\* run, given the same changed paths, text and remote answers but another
\* non-empty credential, writes the same log lines and ends with the same exit
\* code as the first.
C17_TokenDoesNotShow ==
  /\ \A k \in DOMAIN requests :
        /\ requests[k].authorization = BearerPrefix \o Trim(env.DECERN_CI_TOKEN.v)
        /\ ~Includes(requests[k].url, Trim(env.DECERN_CI_TOKEN.v))
        /\ ~Includes(requests[k].value, Trim(env.DECERN_CI_TOKEN.v))
  /\ \A k \in DOMAIN log :
        log[k].msg = FailMsg => ~Includes(log[k].args[2], Trim(env.DECERN_CI_TOKEN.v))
  /\ SecondRunGoing =>
        /\ IsPrefix(log, earlier.log)
        /\ IsPrefix(Scrub(requests), Scrub(earlier.requests))
        /\ (pc \in {"done", "threw"} /\ RemoteEvents(served) = earlier.events)
             => /\ log = earlier.log
                /\ exitCode = earlier.exitCode
                /\ pc = earlier.pc
                /\ Scrub(requests) = Scrub(earlier.requests)


----------------------------------------------------------------------------
(* Properties of the validate request *)

\* C18: the URL of every validate request is the configured base URL without
\* its trailing slash, immediately followed by the validate path; the
\* reference travels as the one query parameter.
C18_UrlIsBaseThenPath ==
  \A k \in DOMAIN requests :
    /\ requests[k].url = StripTrailingSlash(Trim(env.DECERN_BASE_URL.v)) \o VALIDATE_PATH
    /\ requests[k].param \in {"adrRef", "decisionId"}
    /\ requests[k].value = Trim(requests[k].ref)


----------------------------------------------------------------------------
(* Properties of the configuration *)

\* the text is an integer in decimal notation, white space around it allowed
IsIntegerText(s) ==
  LET u == Trim(s)
      d == IF u # <<>> /\ Head(u) = "-" THEN Tail(u) ELSE u
  IN  d # <<>> /\ \A i \in DOMAIN d : d[i] \in Digits

\* the integer such a text denotes
IntegerOf(s) ==
  LET u == Trim(s)
  IN  IF Head(u) = "-" THEN 0 - DigitsValue(Tail(u), 0) ELSE DigitsValue(u, 0)

\* the text does not begin with a number at all
IsNotANumber(s) ==
  LET u == TrimLeft(s)
      d == IF u # <<>> /\ Head(u) = "-" THEN Tail(u) ELSE u
  IN  d = <<>> \/ Head(d) \notin Digits

\* C19: the effective timeout is max(1000, n) for every configured integer n,
\* 0 and negative values included; it is 5000 when the variable is unset or
\* not a number; it is never below 1000.
C19_TimeoutIsFlooredValue ==
  exPc = "ret" =>
    LET x == env.DECERN_GATE_TIMEOUT_MS
    IN  /\ exOut >= 1000
        /\ x = JsUndefined => exOut = 5000
        /\ (x.t = "string" /\ IsNotANumber(x.v)) => exOut = 5000
        /\ (x.t = "string" /\ IsIntegerText(x.v)) => exOut = Max(1000, IntegerOf(x.v))


----------------------------------------------------------------------------
(* Properties of the validate outcome *)

\* the event that ended the last validate call
LastEvent == served[Len(served)].event

\* the reason the backend supplied in a response, if any
BackendReason(e) ==
  IF e.payload.kind = "json" THEN e.payload.body.reason ELSE JsUndefined

HttpStatusMsg(status) == <<"H","T","T","P"," ">> \o NumToString(status)

\* C20: a Fail outcome of a response carries the response's HTTP status and, as
\* its reason, the backend's reason rendered as a label (not_approved becomes
\* "Not Approved"), or the status-code message when the backend gave none; a
\* network failure other than a timeout is a Fail with status 0.
C20_FailCarriesStatusAndReason ==
  served # <<>> =>
    /\ (LastEvent.kind = "response" /\ ~result.ok) =>
          /\ result.status = LastEvent.status
          /\ result.reason = IF IsNullish(BackendReason(LastEvent))
                             THEN HttpStatusMsg(LastEvent.status)
                             ELSE formatLabel(BackendReason(LastEvent).v)
    /\ LastEvent.kind = "network" => (~result.ok /\ result.status = 0)


----------------------------------------------------------------------------
(* Properties of the timeout timer *)

\* validateRef is not executing: run() is between calls, or has ended
NoCallGoing == call.phase = "idle"

\* C21: a validate call that issues a request owns one timer, armed while the
\* request is awaited; whenever a call has returned - before the next call
\* and at the end of the run - its timer has fired or was cancelled, on
\* every exit path; none is pending.
C21_TimerReleased ==
  /\ call.phase = "fetch" => call.timer = "armed"
  /\ NoCallGoing => call.timer # "armed"
  /\ (NoCallGoing /\ requests # <<>>) => call.timer \in {"cleared", "fired"}
  /\ pc \in {"loop", "done", "threw"} => NoCallGoing

\* a run of two calls: the first ended by a network error, the second by the timeout
C21_Witness ==
  /\ pc = "done"
  /\ Len(requests) = 2
  /\ Len(log) > 2
  /\ log[Len(log) - Len(ExhaustedLines) - 1].args[2] = NetworkErrorResult.reason
  /\ call.timer = "fired"


----------------------------------------------------------------------------
(* Properties of the judge step *)

\* some reference has validated Ok so far
SomeValidatedOk == \E j \in DOMAIN served : served[j].good

\* C22: a judge request is issued only after some reference validated Ok and
\* only when the judge is enabled; a run where every validate call fails, or
\* where the judge is disabled, makes no judge request.
C22_JudgeOnlyAfterOk ==
  [][\A k \in DOMAIN requests' :
        (k > Len(requests) /\ IsJudgeRequest(requests'[k]))
          => (JudgeEnabled /\ SomeValidatedOk)]_vars

\* C22 witness: the judge is enabled, every validate call of the run failed,
\* the run has ended and none of its requests went to the judge
C22_Witness ==
  /\ pc = "done"
  /\ JudgeEnabled
  /\ requests # <<>>
  /\ Len(served) = Len(ids)
  /\ ~SomeValidatedOk
  /\ \A k \in DOMAIN requests : ~IsJudgeRequest(requests[k])


\* the warning that tells of a judge not available on the plan
JudgeWarningMsg == "Judge: skipped - %s"

\* the run reached the point where the judge step is due: the judge is
\* enabled, a reference validated Ok and the linked-PR check let it through
JudgeStepDue ==
  /\ JudgeEnabled
  /\ pc = "done"
  /\ served # <<>>
  /\ served[Len(served)].good
  /\ LinkedPrCheck(result) = "pass"

\* C23: whatever the judge answers at that point decides the run: allowed
\* false with the plan phrase is PlanUnavailable, a warning is logged and
\* run() returns 0; allowed false with any other reason is Blocked and run()
\* returns 1.
C23_PlanUnavailableCarveOut ==
  JudgeStepDue =>
    \A a \in JudgeAnswers :
      (a.status = 200 /\ a.allowed = JsFalse) =>
        IF JudgeOutcome(a) = "PlanUnavailable"
        THEN exitCode = 0 /\ Logged(JudgeWarningMsg)
        ELSE exitCode = 1


----------------------------------------------------------------------------
(* Properties of the diff payload *)

\* a hunk the exclusion rules leave in: its extension is not excluded and
\* its size is within the per-file ceiling
Eligible(h) == ~HasExcludedExtension(h.path) /\ h.size <= PerFileCeiling

RECURSIVE EligibleHunks(_)
EligibleHunks(d) ==
  IF d = <<>> THEN <<>>
  ELSE (IF Eligible(Head(d)) THEN <<Head(d)>> ELSE <<>>) \o EligibleHunks(Tail(d))

\* C24: the text of the payload never exceeds the global ceiling, and
\* truncated is true exactly when some byte of eligible content is missing
\* from the text, which only the global ceiling can cause.
C24_CeilingAndTruncated ==
  exPc = "ret" =>
    /\ TotalBytes(exOut.payload.text) <= GlobalCeiling
    /\ exOut.payload.truncated
         <=> TotalBytes(exOut.payload.text) < TotalBytes(EligibleHunks(exIn.rawDiff))

\* C24 witness: three eligible hunks, two of them of the per-file ceiling;
\* the text is cut at the global ceiling
C24_Witness ==
  /\ exPc = "ret"
  /\ Len(EligibleHunks(exIn.rawDiff)) = 3
  /\ exOut.payload.truncated
  /\ TotalBytes(exOut.payload.text) = GlobalCeiling

\* C25: a hunk with an always-excluded extension, or larger than the per-file
\* ceiling, is no part of the payload text and its path is in excludedPaths;
\* the other hunks make up the text in their original order (up to the cut);
\* and the exit code of the judge step is the one the judge's answer gives,
\* whatever was excluded.
C25_ExcludedNeverSent ==
  exPc = "ret" =>
    /\ \A i \in DOMAIN exIn.rawDiff :
          ~Eligible(exIn.rawDiff[i]) =>
             /\ exIn.rawDiff[i].path \notin Range(PathsOf(exOut.payload.text))
             /\ exIn.rawDiff[i].path \in Range(exOut.payload.excludedPaths)
    /\ IsPrefix(PathsOf(exOut.payload.text), PathsOf(EligibleHunks(exIn.rawDiff)))
    /\ \A k \in DOMAIN exOut.payload.text :
          k < Len(exOut.payload.text) => exOut.payload.text[k] = EligibleHunks(exIn.rawDiff)[k]
    /\ ~exOut.payload.truncated => exOut.payload.text = EligibleHunks(exIn.rawDiff)
    /\ exOut.exit = IF exIn.answer.allowed = JsTrue THEN 0 ELSE 1

\* C25 witness: logo.png is excluded by its extension, a hunk above the
\* per-file ceiling by its size, a third hunk is sent, and the judge allows
C25_Witness ==
  /\ exPc = "ret"
  /\ Len(exIn.rawDiff) = 3
  /\ exIn.rawDiff[1].path = <<"l","o","g","o",".","p","n","g">>
  /\ exIn.rawDiff[2].size > PerFileCeiling
  /\ ~HasExcludedExtension(exIn.rawDiff[2].path)
  /\ Len(exOut.payload.excludedPaths) = 2
  /\ Len(exOut.payload.text) = 1
  /\ exOut.exit = 0


----------------------------------------------------------------------------
(* Properties of extractDecisionIds, continued *)

\* C26: whatever calls were made before, extractDecisionIds(t) returns what a
\* first call on t returns, and the regular expressions are left as a first
\* call finds them: nothing is carried over.
C26_NoStateBetweenCalls ==
  exPc = "ret" =>
    /\ exOut = extractDecisionIds(exIn.text)
    /\ reLastIndex = ZeroIndex

\* C26 witness: a later call has returned a reference
C26_Witness ==
  /\ exPc = "ret"
  /\ exIn.again
  /\ Len(exOut) = 1


----------------------------------------------------------------------------
(* Properties of pathMatchesRequired, continued *)

\* p with every backslash replaced by a forward slash
ForwardSlashed(p) == [i \in DOMAIN p |-> IF p[i] = "\\" THEN "/" ELSE p[i]]

Dockerfile == <<"D","o","c","k","e","r","f","i","l","e">>

\* C27: a path matches exactly when the path with its backslashes replaced by
\* forward slashes matches, whatever the extra patterns; and letter case
\* counts: Dockerfile matches, dockerfile does not.
C27_SlashesAndCase ==
  exPc = "ret" =>
    /\ exOut = pathMatchesRequired(ForwardSlashed(exIn.path), exIn.extraPatterns)
    /\ (exIn.path = Dockerfile /\ exIn.extraPatterns = JsUndefined)
         => /\ exOut
            /\ ~pathMatchesRequired(LowerCase(exIn.path), exIn.extraPatterns)

\* C27 witness: src\Dockerfile, written with a backslash, matches by its basename
C27_Witness ==
  /\ exPc = "ret"
  /\ exIn.path = <<"s","r","c","\\">> \o Dockerfile
  /\ exIn.extraPatterns = JsUndefined
  /\ exOut


----------------------------------------------------------------------------
(* Properties of the policy outcome *)

RECURSIVE MatchingPaths(_)
\* the paths of files that match, each judged by itself, in the order of files
MatchingPaths(files) ==
  IF files = <<>> THEN <<>>
  ELSE (IF pathMatchesRequired(Head(files), JsUndefined) THEN <<Head(files)>> ELSE <<>>)
       \o MatchingPaths(Tail(files))

\* C28: required is true exactly when some path matches; the reason then
\* cites the first min(5, n) of the n matching paths in their order, and the
\* ellipsis exactly when n > 5; the matched subset kept for reporting is all
\* n of them in their order; a path counts the same at every position.
C28_PolicyOutcome ==
  exPc = "ret" =>
    LET m == MatchingPaths(exIn)
        n == Len(m)
    IN  /\ exOut.policy.required <=> n > 0
        /\ exOut.matchedFiles = m
        /\ exOut.policy.required =>
             /\ exOut.policy.reason.args[1] = SubSeq(m, 1, IF n < 5 THEN n ELSE 5)
             /\ exOut.policy.reason.args[2] = (IF n > 5 THEN "..." ELSE "")

\* C28 witness: six of eight changed paths match, given in reverse order;
\* five are cited and the ellipsis follows
C28_Witness ==
  /\ exPc = "ret"
  /\ exIn = Reverse(PolicyPaths)
  /\ Len(exOut.matchedFiles) = 6
  /\ Len(exOut.policy.reason.args[1]) = 5
  /\ exOut.policy.reason.args[2] = "..."


----------------------------------------------------------------------------
(* Properties of run(), continued *)

\* C29: with linked-PR enforcement on, the first reference that validates Ok
\* decides: if its hasLinkedPR is absent or not true, run() returns 1 at once
\* and no request is made for any later reference.
C29_LinkedPrFailureIsFinal ==
  DECERN_GATE_REQUIRE_LINKED_PR =>
    \A k \in DOMAIN served :
      (served[k].good /\ served[k].hasLinkedPR # JsTrue) =>
        /\ pc = "done"
        /\ exitCode = 1
        /\ Len(served) = k
        /\ Len(requests) = k

\* C29 witness: three references, the first validated Ok with hasLinkedPR
\* false, and the run has ended with one request made
C29_Witness ==
  /\ DECERN_GATE_REQUIRE_LINKED_PR
  /\ Len(ids) = 3
  /\ Len(served) = 1
  /\ served[1].good
  /\ served[1].hasLinkedPR = JsFalse
  /\ Len(requests) = 1
  /\ pc = "done"
  /\ exitCode = 1


\* the references were looked for: line 253 has been logged
Extracted == Logged(ReferencesMsg)

\* the variable holds a text of at least one character
NonEmpty(x) == x.t = "string" /\ x.v # <<>>

\* the variable holds a text that is more than white space
NonBlank(x) == x.t = "string" /\ Trim(x.v) # <<>>

\* the PR title, then the PR body, of those for which given(x) holds
PrText(given(_)) ==
  JoinWith((IF given(env.CI_PR_TITLE) THEN <<Trim(env.CI_PR_TITLE.v)>> ELSE <<>>)
           \o (IF given(env.CI_PR_BODY) THEN <<Trim(env.CI_PR_BODY.v)>> ELSE <<>>),
           <<"\n", "\n">>)

\* CI_COMMIT_MESSAGE, or without it the message of the last commit
CommitText ==
  IF NonBlank(env.CI_COMMIT_MESSAGE) THEN Trim(env.CI_COMMIT_MESSAGE.v)
  ELSE IF git.logOk THEN git.message ELSE <<>>

\* the references come from the PR text when given(title) or given(body),
\* from the commit message otherwise; without any the run blocks
ReferencesFromPrText(given(_)) ==
  Extracted =>
    /\ ids = extractDecisionIds(JsString(
               IF given(env.CI_PR_TITLE) \/ given(env.CI_PR_BODY)
               THEN PrText(given) ELSE CommitText))
    /\ (pc = "done" /\ ids = <<>>) => (exitCode = 1 /\ Logged(RemediationMsg))

\* C30: when CI_PR_TITLE or CI_PR_BODY is non-empty the references are
\* extracted from the title and the body only, title first; the commit
\* message is used only when both are empty; a reference that is only in the
\* commit message is then not found and the required run blocks.
C30_PrTextWhenNonEmpty == ReferencesFromPrText(NonEmpty)

\* C30 as amended: the same with "non-empty" read after trimming white space,
\* so that a PR variable of white space only counts as empty.
C30_PrTextWhenNonBlank == ReferencesFromPrText(NonBlank)

\* C30 witness: the PR body has no reference, the commit message has one, and
\* the run has blocked for the absent reference
C30_Witness ==
  /\ pc = "done"
  /\ env.CI_PR_BODY = JsString(TextNoRef)
  /\ env.CI_COMMIT_MESSAGE = JsString(TextPrefix)
  /\ Extracted
  /\ ids = <<>>
  /\ exitCode = 1
  /\ Logged(RemediationMsg)
====
